---------------------------- MODULE Spec2Model ----------------------------
(***************************************************************************)
(* A model of the trainear ear-training engine: the melody comparator     *)
(* (LCS-based and positional versions), the melody generator and the      *)
(* scale helpers it relies on, the difficulty ladder, and the game: the    *)
(* round reducer, the session statistics and the handlers of the App.      *)
(*                                                                         *)
(* Conventions                                                             *)
(*  - sequences are 1-based here and 0-based in the source; an index k of  *)
(*    the source is k+1 in the model;                                      *)
(*  - a duration is counted in half beats (source 0.5 -> 1, 1 -> 2,        *)
(*    1.5 -> 3, 2 -> 4); a note without a duration has no "duration"       *)
(*    field, as in the source;                                             *)
(*  - a time is an exact rational number of milliseconds                   *)
(*    [num |-> n, den |-> d] with d > 0 (the source uses seconds as        *)
(*    doubles; the tolerances are compared exactly);                       *)
(*  - an absent optional value (options, rhythmScore, timingMarks) is an   *)
(*    absent record field.                                                 *)
(***************************************************************************)
EXTENDS Integers, Sequences, FiniteSets, TLC

VARIABLES
    target,            \* compareMelodies: the target melody
    played,            \* compareMelodies: the played notes
    options,           \* compareMelodies: the options argument
    result,            \* what the LCS-based compareMelodies returned
    resultPositional,  \* what the positional compareMelodies returned
    config,            \* generateMelody: the difficulty configuration
    scaleNotes,        \* generateMelody: what the scale provider returned
    melody,            \* generateMelody: the notes pushed so far
    currentIndex,      \* generateMelody: index in scaleNotes of the last note
    lastLeapDir,       \* generateMelody: "up", "down" or "null"
    noteIndex,         \* generateMelody: the loop variable i
    genPc,             \* generateMelody: "idle", "start", "walk" or "done"
    fromStreak,        \* ladder: the fromStreak argument
    toStreak,          \* ladder: the toStreak argument, or the only streak
    ladderCall,        \* ladder: the function called, "none" before the call
    ladderResult,      \* ladder: what the call returned
    state,             \* useGameState: the reducer state (round, difficulty)
    stats,             \* useStats: the session statistics
    prevStreakRef,     \* App: the streak seen when the last round began
    hasRecordedRef,    \* App: the review phase in progress is recorded
    hasStartedRef,     \* App: the first MIDI connection has been handled
    userSettings,      \* history: the key, scale and octave the user chose
    roundStartMelody   \* history: the target melody the round began with

cmpVars == <<target, played, options, result, resultPositional>>

genVars ==
    <<config, scaleNotes, melody, currentIndex, lastLeapDir, noteIndex, genPc>>

ladderVars == <<fromStreak, toStreak, ladderCall, ladderResult>>

gameVars ==
    <<state, stats, prevStreakRef, hasRecordedRef, hasStartedRef,
      userSettings, roundStartMelody>>

vars == <<cmpVars, genVars, ladderVars, gameVars>>

\* The variables a comparator, generator or ladder call leaves alone.
nonCmpVars == <<genVars, ladderVars, gameVars>>
nonGenVars == <<cmpVars, ladderVars, gameVars>>
nonLadderVars == <<cmpVars, genVars, gameVars>>
nonGameVars == <<cmpVars, genVars, ladderVars>>

\* No call of generateMelody is in progress.
NoConfig == [absent |-> TRUE]
GeneratorIdle ==
    /\ config = NoConfig
    /\ scaleNotes = <<>>
    /\ melody = <<>>
    /\ currentIndex = 0
    /\ lastLeapDir = "null"
    /\ noteIndex = 0
    /\ genPc = "idle"

\* No call of a ladder function has been made.
LadderIdle ==
    /\ fromStreak = 0
    /\ toStreak = 0
    /\ ladderCall = "none"
    /\ ladderResult = [pending |-> TRUE]

\* The application is not mounted.
NoGame == [unmounted |-> TRUE]
GameIdle ==
    /\ state = NoGame
    /\ stats = NoGame
    /\ prevStreakRef = 0
    /\ hasRecordedRef = FALSE
    /\ hasStartedRef = FALSE
    /\ userSettings = NoGame
    /\ roundStartMelody = <<>>

-----------------------------------------------------------------------------
(* Bounds of the model *)

MaxLen == 3          \* longest target / played sequence of the pitch family
MaxRhythmLen == 2    \* longest target / played sequence of the timing family

-----------------------------------------------------------------------------
(* Arithmetic helpers *)

Max(a, b) == IF a >= b THEN a ELSE b
Min(a, b) == IF a <= b THEN a ELSE b
Abs(a) == IF a < 0 THEN -a ELSE a

\* Math.round(num / den) for num >= 0, den > 0: halves round up.
Round(num, den) == (2 * num + den) \div (2 * den)

SeqsUpTo(S, lo, hi) == UNION {[1..k -> S] : k \in lo..hi}

-----------------------------------------------------------------------------
(* The comparator: shared pieces *)

NoOptions == [absent |-> TRUE]
NoResult == [pending |-> TRUE]

Midis(notes) == [k \in 1..Len(notes) |-> notes[k].midi]

\* A plausible slip: the tempo is not looked at.
PitchOnlyIgnoringTempo(opts) ==
    \/ "rhythmMode" \notin DOMAIN opts
    \/ ~opts.rhythmMode

\* !options?.rhythmMode || !options?.tempo
PitchOnly(opts) ==
    \/ "rhythmMode" \notin DOMAIN opts
    \/ ~opts.rhythmMode
    \/ "tempo" \notin DOMAIN opts
    \/ opts.tempo = 0

\* note.duration ?? 1, in half beats
DurationOrDefault(note) ==
    IF "duration" \in DOMAIN note THEN note.duration ELSE 2

\* beatOffset before note k: the sum of the durations of the notes before it
RECURSIVE BeatOffset(_, _)
BeatOffset(tgt, k) ==
    IF k <= 1 THEN 0
    ELSE BeatOffset(tgt, k - 1) + DurationOrDefault(tgt[k - 1])

MsPerHalfBeatTimesTempo == 30000   \* 60 / tempo seconds per beat

GOOD_TOLERANCE == 100
OK_TOLERANCE == 200

\* error = actualTime - expectedTime as a fraction errNum / errDen (ms), with
\* expectedTime = beatOffset * (60 / tempo)
ErrNum(time, halfBeats, tempo) ==
    time.num * tempo - halfBeats * MsPerHalfBeatTimesTempo * time.den
ErrDen(time, tempo) == time.den * tempo

\* A plausible slip: the good tolerance compared strictly.
TimingStrict(time, halfBeats, tempo) ==
    LET e == ErrNum(time, halfBeats, tempo)
        d == ErrDen(time, tempo)
    IN  IF Abs(e) < GOOD_TOLERANCE * d
        THEN [points |-> 100, mark |-> "on-time"]
        ELSE IF Abs(e) <= OK_TOLERANCE * d
        THEN [points |-> 50, mark |-> IF e < 0 THEN "early" ELSE "late"]
        ELSE [points |-> 0, mark |-> IF e < 0 THEN "early" ELSE "late"]

\* The points and the timing mark of one matched pair.
Timing(time, halfBeats, tempo) ==
    LET e == ErrNum(time, halfBeats, tempo)
        d == ErrDen(time, tempo)
    IN  IF Abs(e) <= GOOD_TOLERANCE * d
        THEN [points |-> 100, mark |-> "on-time"]
        ELSE IF Abs(e) <= OK_TOLERANCE * d
        THEN [points |-> 50, mark |-> IF e < 0 THEN "early" ELSE "late"]
        ELSE [points |-> 0, mark |-> IF e < 0 THEN "early" ELSE "late"]

RECURSIVE SumPoints(_, _, _, _, _)
SumPoints(tgt, pl, tempo, pairs, k) ==
    IF k = 0 THEN 0
    ELSE SumPoints(tgt, pl, tempo, pairs, k - 1)
         + Timing(pl[pairs[k][2]].time, BeatOffset(tgt, pairs[k][1]), tempo).points

\* rhythmMatched > 0 ? Math.round(rhythmTotal / rhythmMatched) : 0
RhythmScoreOf(rhythmTotal, rhythmMatched) ==
    IF rhythmMatched > 0 THEN Round(rhythmTotal, rhythmMatched) ELSE 0

\* A plausible slip: pitch and rhythm weighted equally.
CombinedScoreEqualWeights(pitchScore, rhythmScore) ==
    Round(pitchScore + rhythmScore, 2)

\* Math.round(0.6 * pitchScore + 0.4 * rhythmScore)
CombinedScoreOf(pitchScore, rhythmScore) ==
    Round(3 * pitchScore + 2 * rhythmScore, 5)

OptionsTempo(opts) == IF "tempo" \in DOMAIN opts THEN opts.tempo ELSE 0

\* The rhythm part of compareMelodies, shared by both versions: the code is
\* the same text in both files.
RhythmScoring(tgt, pl, opts, pairs, pitchScore, targetMarks, playedMarks) ==
    LET tempo == OptionsTempo(opts)
        matchedAt(i) == {k \in 1..Len(pairs) : pairs[k][1] = i}
        timingMarks ==
            [i \in 1..Len(tgt) |->
                IF matchedAt(i) = {} THEN "on-time"
                ELSE LET k == CHOOSE x \in matchedAt(i) : TRUE
                     IN  Timing(pl[pairs[k][2]].time, BeatOffset(tgt, i), tempo).mark]
        rhythmTotal == SumPoints(tgt, pl, tempo, pairs, Len(pairs))
        rhythmMatched == Len(pairs)
        rhythmScore == RhythmScoreOf(rhythmTotal, rhythmMatched)
        combinedScore == CombinedScoreOf(pitchScore, rhythmScore)
    IN  [score |-> combinedScore,
         pitchScore |-> pitchScore,
         rhythmScore |-> rhythmScore,
         targetMarks |-> targetMarks,
         playedMarks |-> playedMarks,
         timingMarks |-> timingMarks]

\* A plausible slip: an empty target always scores 100.
DegenerateResultAlwaysFull(tgt, pl) ==
    IF Len(tgt) = 0
    THEN [score |-> 100,
          pitchScore |-> 100,
          targetMarks |-> <<>>,
          playedMarks |-> [k \in 1..Len(pl) |-> "extra"]]
    ELSE [score |-> 0,
          pitchScore |-> 0,
          targetMarks |-> [k \in 1..Len(tgt) |-> "missing"],
          playedMarks |-> <<>>]

\* The two early returns of compareMelodies (one of the sequences is empty).
DegenerateResult(tgt, pl) ==
    IF Len(tgt) = 0
    THEN [score |-> IF Len(pl) = 0 THEN 100 ELSE 0,
          pitchScore |-> IF Len(pl) = 0 THEN 100 ELSE 0,
          targetMarks |-> <<>>,
          playedMarks |-> [k \in 1..Len(pl) |-> "extra"]]
    ELSE [score |-> 0,
          pitchScore |-> 0,
          targetMarks |-> [k \in 1..Len(tgt) |-> "missing"],
          playedMarks |-> <<>>]

-----------------------------------------------------------------------------
(* The LCS-based comparator *)

\* A plausible slip: a match extends the best neighbour, not the diagonal.
LcsTableOvercounting(t, p) ==
    LET dp[i \in 0..Len(t), j \in 0..Len(p)] ==
            IF i = 0 \/ j = 0 THEN 0
            ELSE IF t[i] = p[j] THEN Max(dp[i - 1, j], dp[i, j - 1]) + 1
            ELSE Max(dp[i - 1, j], dp[i, j - 1])
    IN  dp

\* The table of the longest common suffixes: a mismatch starts again from 0,
\* so only a contiguous run of equal pitches is counted.
LcsTableContiguous(t, p) ==
    LET dp[i \in 0..Len(t), j \in 0..Len(p)] ==
            IF i = 0 \/ j = 0 THEN 0
            ELSE IF t[i] = p[j] THEN dp[i - 1, j - 1] + 1
            ELSE 0
    IN  dp

\* dp[i][j]: the LCS length of the first i target pitches and the first j
\* played pitches
LcsTable(t, p) ==
    LET dp[i \in 0..Len(t), j \in 0..Len(p)] ==
            IF i = 0 \/ j = 0 THEN 0
            ELSE IF t[i] = p[j] THEN dp[i - 1, j - 1] + 1
            ELSE Max(dp[i - 1, j], dp[i, j - 1])
    IN  dp

\* A plausible slip: a match steps back in the target only (j-- forgotten).
RECURSIVE BacktrackKeepsPlayed(_, _, _, _, _)
BacktrackKeepsPlayed(t, p, dp, i, j) ==
    IF i = 0 \/ j = 0 THEN <<>>
    ELSE IF t[i] = p[j]
         THEN Append(BacktrackKeepsPlayed(t, p, dp, i - 1, j), <<i, j>>)
    ELSE IF dp[i - 1, j] > dp[i, j - 1]
         THEN BacktrackKeepsPlayed(t, p, dp, i - 1, j)
    ELSE BacktrackKeepsPlayed(t, p, dp, i, j - 1)

\* A backtrack that never looks at the table: on differing pitches it always
\* steps back in the played sequence.
RECURSIVE BacktrackIgnoresTable(_, _, _, _, _)
BacktrackIgnoresTable(t, p, dp, i, j) ==
    IF i = 0 \/ j = 0 THEN <<>>
    ELSE IF t[i] = p[j]
         THEN Append(BacktrackIgnoresTable(t, p, dp, i - 1, j - 1), <<i, j>>)
    ELSE BacktrackIgnoresTable(t, p, dp, i, j - 1)

\* The backtrack from (i, j); the pairs come out in forward order, as after
\* matchedPairs.reverse().
RECURSIVE Backtrack(_, _, _, _, _)
Backtrack(t, p, dp, i, j) ==
    IF i = 0 \/ j = 0 THEN <<>>
    ELSE IF t[i] = p[j]
         THEN Append(Backtrack(t, p, dp, i - 1, j - 1), <<i, j>>)
    ELSE IF dp[i - 1, j] > dp[i, j - 1]
         THEN Backtrack(t, p, dp, i - 1, j)
    ELSE Backtrack(t, p, dp, i, j - 1)

MatchedPairs(tgt, pl) ==
    LET t == Midis(tgt)
        p == Midis(pl)
    IN  Backtrack(t, p, LcsTable(t, p), Len(t), Len(p))

PitchScoreOf(count, m) == Round(100 * count, m)

compareMelodies(tgt, pl, opts) ==
    IF Len(tgt) = 0 \/ Len(pl) = 0 THEN DegenerateResult(tgt, pl)
    ELSE
    LET targetMidi == Midis(tgt)
        playedMidi == Midis(pl)
        m == Len(tgt)
        n == Len(pl)
        dp == LcsTable(targetMidi, playedMidi)
        matchedPairs == Backtrack(targetMidi, playedMidi, dp, m, n)
        targetInLCS == {matchedPairs[k][1] : k \in 1..Len(matchedPairs)}
        playedInLCS == {matchedPairs[k][2] : k \in 1..Len(matchedPairs)}
        lcsLength == dp[m, n]
        pitchScore == PitchScoreOf(lcsLength, m)
        targetMarks ==
            [i \in 1..m |-> IF i \in targetInLCS THEN "correct" ELSE "missing"]
        playedMarks ==
            [j \in 1..n |->
                IF j \in playedInLCS THEN "correct"
                ELSE IF \E i \in 1..m : targetMidi[i] = playedMidi[j] THEN "wrong"
                ELSE "extra"]
    IN  IF PitchOnly(opts)
        THEN [score |-> pitchScore, pitchScore |-> pitchScore,
              targetMarks |-> targetMarks, playedMarks |-> playedMarks]
        ELSE RhythmScoring(tgt, pl, opts, matchedPairs, pitchScore,
                           targetMarks, playedMarks)

-----------------------------------------------------------------------------
(* The positional comparator *)

PositionalPairs(tgt, pl) ==
    LET len == Min(Len(tgt), Len(pl))
        hits == {i \in 1..len : tgt[i].midi = pl[i].midi}
        RECURSIVE upTo(_)
        upTo(i) == IF i = 0 THEN <<>>
                   ELSE IF i \in hits THEN Append(upTo(i - 1), <<i, i>>)
                   ELSE upTo(i - 1)
    IN  upTo(len)

compareMelodiesPositional(tgt, pl, opts) ==
    IF Len(tgt) = 0 \/ Len(pl) = 0 THEN DegenerateResult(tgt, pl)
    ELSE
    LET targetMidi == Midis(tgt)
        playedMidi == Midis(pl)
        len == Min(Len(tgt), Len(pl))
        match(i) == targetMidi[i] = playedMidi[i]
        targetMarks ==
            [i \in 1..Len(tgt) |->
                IF i <= len THEN (IF match(i) THEN "correct" ELSE "wrong")
                ELSE "missing"]
        playedMarks ==
            [i \in 1..Len(pl) |->
                IF i <= len THEN (IF match(i) THEN "correct" ELSE "wrong")
                ELSE "extra"]
        matchedPairs == PositionalPairs(tgt, pl)
        correctCount == Len(matchedPairs)
        pitchScore == PitchScoreOf(correctCount, Len(tgt))
    IN  IF PitchOnly(opts)
        THEN [score |-> pitchScore, pitchScore |-> pitchScore,
              targetMarks |-> targetMarks, playedMarks |-> playedMarks]
        ELSE RhythmScoring(tgt, pl, opts, matchedPairs, pitchScore,
                           targetMarks, playedMarks)

-----------------------------------------------------------------------------
(* The inputs of the comparator *)

Pitches == {60, 62, 64}            \* pitches of the target melodies
OffPitches == {61}                 \* played pitches no target melody holds
Durations == {1, 2, 3, 4}          \* the source's 0.5, 1, 1.5, 2 beats
Tempos == {0, 120, 140}            \* 0: a zero (falsy) tempo
PlayedTimes == {0, 100, 101, 200, 201, 500}   \* milliseconds

Ms(n) == [num |-> n, den |-> 1]

AllOptions ==
    {NoOptions, [rhythmMode |-> TRUE]}
    \cup [rhythmMode : BOOLEAN, tempo : Tempos]

\* Pitch family: melodies without durations, played one beat apart at 120 BPM.
PitchTargets == SeqsUpTo([midi : Pitches], 0, MaxLen)
PitchPlayed ==
    {[k \in 1..Len(q) |-> [midi |-> q[k], time |-> Ms(500 * (k - 1))]] :
        q \in SeqsUpTo(Pitches \cup OffPitches, 0, MaxLen)}
PitchOptions == {NoOptions, [rhythmMode |-> TRUE, tempo |-> 120]}

\* Timing family: short melodies with or without durations, played at any
\* non-decreasing times.
TimingNotes == [midi : {60, 62}] \cup [midi : {60, 62}, duration : {1}]
TimingTargets == SeqsUpTo(TimingNotes, 1, MaxRhythmLen)
TimingPlayed ==
    {p \in SeqsUpTo([midi : {60, 62}, time : {Ms(t) : t \in PlayedTimes}],
                    1, MaxRhythmLen) :
        \A k \in 1..(Len(p) - 1) : p[k].time.num <= p[k + 1].time.num}
TimingOptions == [rhythmMode : {TRUE}, tempo : {120, 140}]

\* The performance of a melody itself: its pitches in order, each at its
\* expected onset (at 100 BPM when no tempo is given).
ExpectedOnset(tgt, k, tempo) ==
    [num |-> BeatOffset(tgt, k) * MsPerHalfBeatTimesTempo,
     den |-> IF tempo = 0 THEN 100 ELSE tempo]
PerformExactly(tgt, opts) ==
    [k \in 1..Len(tgt) |->
        [midi |-> tgt[k].midi,
         time |-> ExpectedOnset(tgt, k, OptionsTempo(opts))]]
ExactTargets ==
    SeqsUpTo([midi : Pitches], 1, MaxLen)
    \cup SeqsUpTo([midi : {60, 62}, duration : Durations], 1, MaxRhythmLen)

\* The worked examples of the specification: a reordered melody, and one
\* quarter note at 120 BPM played on time, 150 ms late and 300 ms late.
PitchExample(ps, qs) ==
    <<[k \in 1..Len(ps) |-> [midi |-> ps[k]]],
      [k \in 1..Len(qs) |-> [midi |-> qs[k], time |-> Ms(500 * (k - 1))]]>>
TimingExample(ms) ==
    <<(<<[midi |-> 60, duration |-> 2]>>), (<<[midi |-> 60, time |-> Ms(ms)]>>)>>
\* Four quarter notes, the first played 150 ms late and the others 300 ms
\* late: the mean of the points is 12.5.
LateExample ==
    <<[k \in 1..4 |-> [midi |-> 58 + 2 * k, duration |-> 2]],
      [k \in 1..4 |-> [midi |-> 58 + 2 * k,
                       time |-> Ms(500 * (k - 1) + (IF k = 1 THEN 150 ELSE 300))]]>>
Examples ==
    {PitchExample(<<60, 62, 64, 65>>, <<60, 64, 62, 65>>), LateExample}
    \cup {TimingExample(ms) : ms \in {0, 150, 300}}

InitCompare ==
    /\ \/ /\ target \in PitchTargets
          /\ played \in PitchPlayed
          /\ options \in PitchOptions
       \/ /\ target \in TimingTargets
          /\ played \in TimingPlayed
          /\ options \in TimingOptions
       \/ /\ target \in ExactTargets
          /\ options \in AllOptions
          /\ played = PerformExactly(target, options)
       \/ /\ \E e \in Examples : target = e[1] /\ played = e[2]
          /\ options \in PitchOptions
       \/ /\ \/ target \in PitchTargets /\ played = <<>>
             \/ target = <<>> /\ played \in PitchPlayed
          /\ options \in AllOptions
    /\ result = NoResult
    /\ resultPositional = NoResult
    /\ GeneratorIdle
    /\ LadderIdle
    /\ GameIdle

\* A call of the LCS-based compareMelodies (a run calls one of the two
\* versions, once).
Compare ==
    /\ result = NoResult
    /\ resultPositional = NoResult
    /\ result' = compareMelodies(target, played, options)
    /\ UNCHANGED <<target, played, options, resultPositional, nonCmpVars>>

\* A call of the positional compareMelodies.
ComparePositional ==
    /\ result = NoResult
    /\ resultPositional = NoResult
    /\ resultPositional' = compareMelodiesPositional(target, played, options)
    /\ UNCHANGED <<target, played, options, result, nonCmpVars>>

NextCompare == Compare \/ ComparePositional

SpecCompare == InitCompare /\ [][NextCompare]_vars

-----------------------------------------------------------------------------
(* Claims about the comparator, checked under SpecCompare *)

Computed(r) == "score" \in DOMAIN r
NonDegenerate == target # <<>> /\ played # <<>>

\* R is num / den rounded to the nearest integer, halves up (num >= 0, den > 0)
IsRounded(R, num, den) ==
    /\ 2 * den * R <= 2 * num + den
    /\ 2 * num + den < 2 * den * (R + 1)

\* The options ask for rhythm scoring: rhythm mode on and a positive tempo.
RhythmRequested ==
    /\ "rhythmMode" \in DOMAIN options
    /\ options.rhythmMode
    /\ "tempo" \in DOMAIN options
    /\ options.tempo > 0

\* A brute-force longest common subsequence: the largest set of target
\* positions whose pitches, in order, occur in order among the played pitches.
RECURSIVE PickAt(_, _, _)
PickAt(t, S, k) ==
    IF k > Len(t) THEN <<>>
    ELSE IF k \in S THEN <<t[k]>> \o PickAt(t, S, k + 1)
    ELSE PickAt(t, S, k + 1)

RECURSIVE IsSubsequence(_, _)
IsSubsequence(s, p) ==
    IF s = <<>> THEN TRUE
    ELSE IF p = <<>> THEN FALSE
    ELSE IF Head(s) = Head(p) THEN IsSubsequence(Tail(s), Tail(p))
    ELSE IsSubsequence(s, Tail(p))

TrueLcsLength(t, p) ==
    LET sizes == {Cardinality(S) :
                    S \in {X \in SUBSET (1..Len(t)) : IsSubsequence(PickAt(t, X, 1), p)}}
    IN  CHOOSE n \in sizes : \A k \in sizes : k <= n

PitchScoreIsLcs(r) ==
    (Computed(r) /\ NonDegenerate) =>
        IsRounded(r.pitchScore,
                  100 * TrueLcsLength(Midis(target), Midis(played)),
                  Len(target))

\* C1: for every non-empty target and non-empty played sequence, compareMelodies
\* returns pitchScore = round(100 * L / len(target)), L the true length of the
\* longest common subsequence of the target and the played pitches. Stated of
\* both versions of compareMelodies the repository holds.
C1_PitchScoreIsLcs == PitchScoreIsLcs(result) /\ PitchScoreIsLcs(resultPositional)

\* C1, of the LCS-based version alone (it holds there).
C1_LcsVersionPitchScore == PitchScoreIsLcs(result)

C1_LcsVersionWitness ==
    /\ Computed(result)
    /\ Midis(target) = <<60, 62, 64, 65>>
    /\ Midis(played) = <<60, 64, 62, 65>>
    /\ result.pitchScore = 75

InAlignment(pairs, side, i) == \E k \in 1..Len(pairs) : pairs[k][side] = i

MarksFollowAlignment(r) ==
    (Computed(r) /\ NonDegenerate) =>
        LET pairs == MatchedPairs(target, played)
        IN  /\ \A i \in 1..Len(target) :
                  r.targetMarks[i] =
                      IF InAlignment(pairs, 1, i) THEN "correct" ELSE "missing"
            /\ \A j \in 1..Len(played) :
                  r.playedMarks[j] =
                      IF InAlignment(pairs, 2, j) THEN "correct"
                      ELSE IF \E i \in 1..Len(target) :
                                  target[i].midi = played[j].midi
                           THEN "wrong"
                      ELSE "extra"

\* C2: in the non-degenerate case a target note is marked 'correct' exactly
\* when it takes part in the recovered LCS alignment and 'missing' otherwise; a
\* played note is 'correct' exactly when it takes part in the alignment, and
\* otherwise 'wrong' if its pitch occurs in the target and 'extra' if not.
\* Stated of both versions of compareMelodies the repository holds.
C2_MarksFollowAlignment ==
    MarksFollowAlignment(result) /\ MarksFollowAlignment(resultPositional)

\* C2, of the LCS-based version alone (it holds there).
C2_LcsVersionMarks == MarksFollowAlignment(result)

C2_LcsVersionWitness ==
    /\ Computed(result)
    /\ \E i \in 1..Len(target) : result.targetMarks[i] = "missing"
    /\ \E j \in 1..Len(played) : result.playedMarks[j] = "wrong"
    /\ \E j \in 1..Len(played) : result.playedMarks[j] = "extra"
    /\ \E j \in 1..Len(played) : result.playedMarks[j] = "correct"

\* The played sequence is the melody itself: its pitches in order and, when
\* the options carry a positive tempo, each note at its expected onset.
SameTime(a, b) == a.num * b.den = b.num * a.den
IsExactPerformance ==
    /\ Midis(played) = Midis(target)
    /\ ("tempo" \in DOMAIN options /\ options.tempo > 0) =>
          \A k \in 1..Len(target) :
              SameTime(played[k].time, ExpectedOnset(target, k, options.tempo))

PerfectResult(r) ==
    (Computed(r) /\ target # <<>> /\ IsExactPerformance) =>
        /\ r.pitchScore = 100
        /\ r.score = 100
        /\ \A i \in 1..Len(target) : r.targetMarks[i] = "correct"
        /\ \A j \in 1..Len(played) : r.playedMarks[j] = "correct"
        /\ RhythmRequested => r.rhythmScore = 100

\* C3: comparing a non-empty melody with its own pitches played in order at the
\* expected onsets gives pitchScore 100, combined score 100 and every target and
\* played mark 'correct', with rhythm mode off and on.
C3_SelfComparisonIsPerfect == PerfectResult(result) /\ PerfectResult(resultPositional)

C3_Witness ==
    /\ Computed(result)
    /\ IsExactPerformance
    /\ RhythmRequested
    /\ Len(target) >= 2
    /\ target[1].midi = target[2].midi
    /\ "duration" \in DOMAIN target[1]
    /\ result.score = 100
    /\ "rhythmScore" \in DOMAIN result

DegenerateHandled(r) ==
    Computed(r) =>
        /\ (target = <<>> /\ played = <<>>) =>
              /\ r.score = 100 /\ r.pitchScore = 100
              /\ r.targetMarks = <<>> /\ r.playedMarks = <<>>
        /\ (target = <<>> /\ played # <<>>) =>
              /\ r.score = 0 /\ r.pitchScore = 0
              /\ r.targetMarks = <<>>
              /\ Len(r.playedMarks) = Len(played)
              /\ \A j \in 1..Len(played) : r.playedMarks[j] = "extra"
        /\ (target # <<>> /\ played = <<>>) =>
              /\ r.score = 0 /\ r.pitchScore = 0
              /\ r.playedMarks = <<>>
              /\ Len(r.targetMarks) = Len(target)
              /\ \A i \in 1..Len(target) : r.targetMarks[i] = "missing"

\* C4: whatever the options, empty target and empty played give score =
\* pitchScore = 100 and empty marks; empty target and non-empty played give
\* score 0 and every played note 'extra'; non-empty target and empty played
\* give score = pitchScore = 0 and every target note 'missing'.
C4_DegenerateInputs ==
    DegenerateHandled(result) /\ DegenerateHandled(resultPositional)

C4_Witness ==
    /\ Computed(result)
    /\ target = <<>>
    /\ Len(played) >= 2
    /\ RhythmRequested
    /\ result.score = 0

PitchFieldsOnly(r) ==
    Computed(r) =>
        /\ ~RhythmRequested =>
              /\ "rhythmScore" \notin DOMAIN r
              /\ "timingMarks" \notin DOMAIN r
              /\ r.score = r.pitchScore
        /\ (RhythmRequested /\ NonDegenerate) =>
              /\ "rhythmScore" \in DOMAIN r
              /\ "timingMarks" \in DOMAIN r

\* C5: with rhythm mode false or the tempo absent or zero the result has no
\* rhythmScore and no timingMarks and score = pitchScore; with rhythm mode true,
\* a positive tempo and two non-empty sequences it has both.
C5_RhythmFieldsFollowOptions ==
    PitchFieldsOnly(result) /\ PitchFieldsOnly(resultPositional)

C5_Witness ==
    /\ Computed(result)
    /\ NonDegenerate
    /\ "rhythmMode" \in DOMAIN options /\ options.rhythmMode
    /\ "tempo" \in DOMAIN options /\ options.tempo = 0
    /\ "rhythmScore" \notin DOMAIN result

\* The claim's timing rule, from the note data: the beats before note i, the
\* error of a played time against the expected onset, its points and mark.
ClaimHalfBeatsBefore(tgt, i) ==
    LET f[k \in 0..(i - 1)] ==
            IF k = 0 THEN 0
            ELSE f[k - 1] + (IF "duration" \in DOMAIN tgt[k]
                             THEN tgt[k].duration ELSE 2)
    IN  f[i - 1]

\* error * (time.den * tempo), in milliseconds; the factor is positive
ClaimScaledError(pair) ==
    played[pair[2]].time.num * options.tempo
    - ClaimHalfBeatsBefore(target, pair[1]) * 30000 * played[pair[2]].time.den
ClaimScale(pair) == played[pair[2]].time.den * options.tempo

ClaimPoints(pair) ==
    IF Abs(ClaimScaledError(pair)) <= 100 * ClaimScale(pair) THEN 100
    ELSE IF Abs(ClaimScaledError(pair)) <= 200 * ClaimScale(pair) THEN 50
    ELSE 0

ClaimMark(pair) ==
    IF ClaimPoints(pair) = 100 THEN "on-time"
    ELSE IF ClaimScaledError(pair) < 0 THEN "early"
    ELSE "late"

TimingOfPairs(r, pairs) ==
    (Computed(r) /\ RhythmRequested /\ NonDegenerate) =>
        /\ \A k \in 1..Len(pairs) : r.timingMarks[pairs[k][1]] = ClaimMark(pairs[k])
        /\ Len(pairs) = 1 => r.rhythmScore = ClaimPoints(pairs[1])

\* C6: in rhythm mode the timing error of a matched pair is the played onset
\* minus the sum of the durations of the preceding target notes (a missing
\* duration counting as one beat) times 60 / tempo; |error| <= 0.1 s gives 100
\* points and 'on-time', |error| <= 0.2 s gives 50 points, more gives 0, and in
\* the last two cases the mark is 'early' for a negative error, else 'late'.
C6_TimingClassification ==
    /\ TimingOfPairs(result, MatchedPairs(target, played))
    /\ TimingOfPairs(resultPositional, PositionalPairs(target, played))

C6_Witness ==
    /\ Computed(result)
    /\ target = <<[midi |-> 60, duration |-> 2]>>
    /\ played = <<[midi |-> 60, time |-> Ms(150)]>>
    /\ options = [rhythmMode |-> TRUE, tempo |-> 120]
    /\ result.rhythmScore = 50
    /\ result.timingMarks = <<"late">>

C6_WitnessEarly ==
    /\ Computed(result)
    /\ RhythmRequested
    /\ Len(target) = 2
    /\ "duration" \notin DOMAIN target[1]
    /\ result.timingMarks[2] = "early"
    /\ result.targetMarks[2] = "correct"

RECURSIVE ClaimTotal(_, _)
ClaimTotal(pairs, k) ==
    IF k = 0 THEN 0 ELSE ClaimTotal(pairs, k - 1) + ClaimPoints(pairs[k])

RhythmAndCombined(r, pairs) ==
    (Computed(r) /\ RhythmRequested /\ NonDegenerate) =>
        /\ IF Len(pairs) = 0 THEN r.rhythmScore = 0
           ELSE IsRounded(r.rhythmScore, ClaimTotal(pairs, Len(pairs)), Len(pairs))
        /\ IsRounded(r.score, 6 * r.pitchScore + 4 * r.rhythmScore, 10)
        /\ \A i \in 1..Len(target) :
              ~InAlignment(pairs, 1, i) => r.timingMarks[i] = "on-time"

\* C7: in rhythm mode rhythmScore is the rounded mean of the timing points of
\* the matched pairs, 0 when there are none; the combined score is
\* round(0.6 * pitchScore + 0.4 * rhythmScore); unmatched target notes keep the
\* timing mark 'on-time'.
C7_RhythmAndCombinedScore ==
    /\ RhythmAndCombined(result, MatchedPairs(target, played))
    /\ RhythmAndCombined(resultPositional, PositionalPairs(target, played))

C7_Witness ==
    /\ Computed(result)
    /\ RhythmRequested
    /\ Len(MatchedPairs(target, played)) = 4
    /\ result.rhythmScore = 13
    /\ result.pitchScore = 100
    /\ result.score = 65

C7_WitnessUnmatched ==
    /\ Computed(result)
    /\ RhythmRequested
    /\ Len(target) = 2
    /\ Len(MatchedPairs(target, played)) = 1
    /\ result.targetMarks[2] = "missing"
    /\ result.rhythmScore = 50
    /\ result.score = 50

WellFormedResult(r) ==
    Computed(r) =>
        /\ r.score \in 0..100
        /\ r.pitchScore \in 0..100
        /\ "rhythmScore" \in DOMAIN r => r.rhythmScore \in 0..100
        /\ Len(r.targetMarks) = Len(target)
        /\ Len(r.playedMarks) = Len(played)
        /\ \A i \in 1..Len(target) :
              r.targetMarks[i] \in {"correct", "wrong", "missing", "extra"}
        /\ \A j \in 1..Len(played) :
              r.playedMarks[j] \in {"correct", "wrong", "missing", "extra"}
        /\ "timingMarks" \in DOMAIN r =>
              /\ Len(r.timingMarks) = Len(target)
              /\ \A i \in 1..Len(target) :
                    r.timingMarks[i] \in {"on-time", "early", "late"}

\* C8: every result has score, pitchScore and (when present) rhythmScore in
\* 0..100, targetMarks of the target's length, playedMarks of the played
\* sequence's length and (when present) timingMarks of the target's length.
C8_ResultShape == WellFormedResult(result) /\ WellFormedResult(resultPositional)

C8_Witness ==
    /\ Computed(result)
    /\ "timingMarks" \in DOMAIN result
    /\ Len(target) < Len(played)
    /\ result.pitchScore \notin {0, 100}

-----------------------------------------------------------------------------
(* The scale helpers (theory/scales.ts)                                     *)
(*                                                                         *)
(* A note name is [letter, acc]: letter 0..6 for C D E F G A B, acc the    *)
(* number of sharps (positive) or flats (negative).  Scale.get and         *)
(* Chord.get of the tonal library spell a scale or a chord by transposing  *)
(* the tonic by each interval of the scale or chord type; an interval is   *)
(* [step, semis]: the number of letters and of semitones it spans.         *)

AVAILABLE_KEYS ==
    {"C", "Db", "D", "Eb", "E", "F", "F#", "G", "Ab", "A", "Bb", "B"}

ScaleNames ==
    {"major", "natural minor", "harmonic minor", "pentatonic", "blues",
     "chromatic"}

AVAILABLE_SCALES(scaleName) ==
    CASE scaleName = "major" -> "major"
      [] scaleName = "natural minor" -> "minor"
      [] scaleName = "harmonic minor" -> "harmonic minor"
      [] scaleName = "pentatonic" -> "major pentatonic"
      [] scaleName = "blues" -> "major blues"
      [] scaleName = "chromatic" -> "chromatic"
      [] OTHER -> scaleName

SCALE_TRIAD(scaleName) ==
    CASE scaleName \in {"natural minor", "harmonic minor"} -> "minor"
      [] OTHER -> "major"

NaturalPitchClass == <<0, 2, 4, 5, 7, 9, 11>>

KeyNote(key) ==
    CASE key = "C" -> [letter |-> 0, acc |-> 0]
      [] key = "Db" -> [letter |-> 1, acc |-> -1]
      [] key = "D" -> [letter |-> 1, acc |-> 0]
      [] key = "Eb" -> [letter |-> 2, acc |-> -1]
      [] key = "E" -> [letter |-> 2, acc |-> 0]
      [] key = "F" -> [letter |-> 3, acc |-> 0]
      [] key = "F#" -> [letter |-> 3, acc |-> 1]
      [] key = "G" -> [letter |-> 4, acc |-> 0]
      [] key = "Ab" -> [letter |-> 5, acc |-> -1]
      [] key = "A" -> [letter |-> 5, acc |-> 0]
      [] key = "Bb" -> [letter |-> 6, acc |-> -1]
      [] key = "B" -> [letter |-> 6, acc |-> 0]

Iv(step, semis) == [step |-> step, semis |-> semis]

\* The intervals of the scale types of tonal the program asks for; a name
\* tonal does not know has no notes.
ScaleTypeIntervals(tonalName) ==
    CASE tonalName = "major" ->
            {Iv(0, 0), Iv(1, 2), Iv(2, 4), Iv(3, 5), Iv(4, 7), Iv(5, 9),
             Iv(6, 11)}
      [] tonalName = "minor" ->
            {Iv(0, 0), Iv(1, 2), Iv(2, 3), Iv(3, 5), Iv(4, 7), Iv(5, 8),
             Iv(6, 10)}
      [] tonalName = "harmonic minor" ->
            {Iv(0, 0), Iv(1, 2), Iv(2, 3), Iv(3, 5), Iv(4, 7), Iv(5, 8),
             Iv(6, 11)}
      [] tonalName = "major pentatonic" ->
            {Iv(0, 0), Iv(1, 2), Iv(2, 4), Iv(4, 7), Iv(5, 9)}
      [] tonalName = "major blues" ->
            {Iv(0, 0), Iv(1, 2), Iv(2, 3), Iv(2, 4), Iv(4, 7), Iv(5, 9)}
      [] tonalName = "chromatic" ->
            {Iv(0, 0), Iv(1, 1), Iv(1, 2), Iv(2, 3), Iv(2, 4), Iv(3, 5),
             Iv(4, 6), Iv(4, 7), Iv(5, 8), Iv(5, 9), Iv(6, 10), Iv(6, 11)}
      [] OTHER -> {}

ChordTypeIntervals(quality) ==
    CASE quality = "minor" -> {Iv(0, 0), Iv(2, 3), Iv(4, 7)}
      [] OTHER -> {Iv(0, 0), Iv(2, 4), Iv(4, 7)}

\* The spelling of the note an interval above a tonic: the letter moves by
\* the interval's steps and the accidental makes up the semitones.
Transpose(tonic, iv) ==
    LET letter == (tonic.letter + iv.step) % 7
        raw == NaturalPitchClass[tonic.letter + 1] + tonic.acc + iv.semis
               - NaturalPitchClass[letter + 1]
    IN  [letter |-> letter, acc |-> ((raw + 6) % 12) - 6]

ScaleGetNotes(key, tonalName) ==
    {Transpose(KeyNote(key), iv) : iv \in ScaleTypeIntervals(tonalName)}

ChordGetNotes(key, quality) ==
    {Transpose(KeyNote(key), iv) : iv \in ChordTypeIntervals(quality)}

\* The table holds the seven letters, the sharps of C D F G A and the flats
\* of D E G A B; any other name (E#, B#, Cb, Fb, a double accidental) is not
\* in the table and gives 0.
noteToPitchClassNumber(note) ==
    IF note.acc = 0 THEN NaturalPitchClass[note.letter + 1]
    ELSE IF note.acc = 1 /\ note.letter \in {0, 1, 3, 4, 5}
         THEN NaturalPitchClass[note.letter + 1] + 1
    ELSE IF note.acc = -1 /\ note.letter \in {1, 2, 4, 5, 6}
         THEN NaturalPitchClass[note.letter + 1] - 1
    ELSE 0

toSimplePitchClass(note) == noteToPitchClassNumber(note)

midiToPitchClass(midi) == ((midi % 12) + 12) % 12

getScaleNotesInRange(key, scaleName, low, high) ==
    LET tonalName == AVAILABLE_SCALES(scaleName)
        notes == ScaleGetNotes(key, tonalName)
        range == [k \in 1..(high - low + 1) |-> low + k - 1]
        pitchClasses == {toSimplePitchClass(n) : n \in notes}
    IN  IF notes = {} THEN range
        ELSE SelectSeq(range, LAMBDA midi : midiToPitchClass(midi) \in pitchClasses)

getChordTonePitchClasses(key, scaleName) ==
    {toSimplePitchClass(n) : n \in ChordGetNotes(key, SCALE_TRIAD(scaleName))}

-----------------------------------------------------------------------------
(* The melody generator (engine/melodyGenerator.ts)                         *)
(*                                                                         *)
(* A value of Math.random() is given in hundredths: rnd stands for         *)
(* rnd / 100.  An index of scaleNotes or of a list of candidates is        *)
(* 1-based.                                                                *)

centerMidi == 60
lowMidi == centerMidi - 8
highMidiOneMore == centerMidi + 13
highMidi == centerMidi + 12

RHYTHM_POOL ==
    <<[dur |-> 1, weight |-> 20], [dur |-> 2, weight |-> 50],
      [dur |-> 3, weight |-> 15], [dur |-> 4, weight |-> 15]>>

FALLBACK_FRAGMENT == <<60, 62, 64, 65>>

SumTo(ws, k) ==
    LET f[n \in 0..k] == IF n = 0 THEN 0 ELSE f[n - 1] + ws[n]
    IN  f[k]

\* The loop "r -= weight; if (r <= 0) return" with r = Math.random() * total:
\* the first position whose running total reaches r, or 0 when the loop ends
\* without returning.
FirstReaching(ws, rnd) ==
    LET total == SumTo(ws, Len(ws))
        reached == {k \in 1..Len(ws) : rnd * total <= 100 * SumTo(ws, k)}
    IN  IF reached = {} THEN 0
        ELSE CHOOSE k \in reached : \A n \in reached : k <= n

randomDuration(rnd) ==
    LET k == FirstReaching([n \in 1..Len(RHYTHM_POOL) |-> RHYTHM_POOL[n].weight],
                           rnd)
    IN  IF k = 0 THEN 2 ELSE RHYTHM_POOL[k].dur

\* The weight weightedPick gives to the candidate at index j.
CandidateWeight(j, notes, current, chordTonePCs, rootPC, fifthPC, leapDir, resolving) ==
    LET pc == notes[j] % 12
        chordW == IF pc \in chordTonePCs THEN 4 ELSE 1
        harmonicW == IF ~resolving THEN chordW
                     ELSE IF pc = rootPC THEN chordW * 6
                     ELSE IF pc = fifthPC THEN chordW * 3
                     ELSE 1
        scaleDist == Abs(j - current)
        motionW == IF scaleDist <= 1 THEN 5 ELSE IF scaleDist <= 2 THEN 3 ELSE 1
        direction == j - current
        recoveryW == IF leapDir = "up" /\ direction < 0 THEN 3
                     ELSE IF leapDir = "down" /\ direction > 0 THEN 3
                     ELSE 1
    IN  harmonicW * motionW * recoveryW

weightedPick(candidates, notes, current, chordTonePCs, rootPC, fifthPC, leapDir, resolving, rnd) ==
    LET weights == [n \in 1..Len(candidates) |->
                       CandidateWeight(candidates[n], notes, current,
                                       chordTonePCs, rootPC, fifthPC, leapDir,
                                       resolving)]
        k == FirstReaching(weights, rnd)
    IN  IF k = 0 THEN candidates[Len(candidates)] ELSE candidates[k]

\* Math.round(center + (Math.random() - 0.5) * 2 * spread) with
\* center = (length - 1) / 2 and spread = length / 3, clamped to the list.
randomIndexNearCenter(length, rnd) ==
    IF length <= 1 THEN 1
    ELSE LET index == Round(75 * (length - 1) + (rnd - 50) * length, 150)
         IN  Max(0, Min(length - 1, index)) + 1

\* A filter one semitone too wide.
CandidateIndicesLoose(notes, current, maxInterval) ==
    SelectSeq([j \in 1..Len(notes) |-> j],
              LAMBDA j : LET dist == Abs(notes[j] - notes[current])
                         IN  dist > 0 /\ dist <= maxInterval + 1)

\* The indices of the scale notes within maxInterval semitones of the current
\* note, the current note excluded.
CandidateIndices(notes, current, maxInterval) ==
    SelectSeq([j \in 1..Len(notes) |-> j],
              LAMBDA j : LET dist == Abs(notes[j] - notes[current])
                         IN  dist > 0 /\ dist <= maxInterval)

ChordToneIndices(notes, chordTonePCs) ==
    SelectSeq([j \in 1..Len(notes) |-> j],
              LAMBDA j : notes[j] % 12 \in chordTonePCs)

\* scaleNotes.find(chord tone) % 12; -1 stands for NaN (no chord tone found).
RootPC(notes, chordTonePCs) ==
    LET found == ChordToneIndices(notes, chordTonePCs)
    IN  IF Len(found) = 0 THEN -1 ELSE notes[found[1]] % 12

FifthPC(rootPC) == IF rootPC = -1 THEN -1 ELSE (rootPC + 7) % 12

\* A generated note: its duration is drawn in rhythm mode and absent otherwise.
NewNote(midi, cfg, drnd) ==
    IF cfg.rhythmMode THEN [midi |-> midi, duration |-> randomDuration(drnd)]
    ELSE [midi |-> midi]

-----------------------------------------------------------------------------
(* The calls of generateMelody *)

MaxRhythmNoteCount == 4    \* most notes of a melody generated in rhythm mode

NoteCounts == 3..8
MaxIntervals == {1, 3, 12}
KeyScales ==
    {<<"C", "major">>, <<"Db", "natural minor">>, <<"F#", "harmonic minor">>,
     <<"C", "pentatonic">>, <<"Eb", "blues">>, <<"A", "chromatic">>}
Octaves == {3, 4, 5}
RandomValues == {0, 50, 99}          \* values of Math.random(), in hundredths
DurationRandomValues == {0, 99}      \* those randomDuration draws

Configs ==
    {c \in [noteCount : NoteCounts, scale : ScaleNames, key : AVAILABLE_KEYS,
            tempo : {100}, maxInterval : MaxIntervals, rhythmMode : BOOLEAN,
            octave : Octaves] :
        /\ <<c.key, c.scale>> \in KeyScales
        /\ c.rhythmMode => c.noteCount <= MaxRhythmNoteCount
        /\ c.octave # 4 => c.noteCount <= 4 /\ ~c.rhythmMode}

\* What the scale provider returns to generateMelody: the result of
\* getScaleNotesInRange, or the empty list generateMelody provides for.
ScaleProviderResults(cfg) ==
    {getScaleNotesInRange(cfg.key, cfg.scale, lowMidi, highMidi), <<>>}

\* The draws of randomDuration for one note: none without rhythm mode.
DurationDraws(cfg) == IF cfg.rhythmMode THEN DurationRandomValues ELSE {0}

ComparatorIdle ==
    /\ target = <<>>
    /\ played = <<>>
    /\ options = NoOptions
    /\ result = NoResult
    /\ resultPositional = NoResult

InitGenerate ==
    /\ ComparatorIdle
    /\ LadderIdle
    /\ GameIdle
    /\ config \in Configs
    /\ scaleNotes \in ScaleProviderResults(config)
    /\ melody = <<>>
    /\ currentIndex = 0
    /\ lastLeapDir = "null"
    /\ noteIndex = 0
    /\ genPc = "start"

\* generateMelody with no scale note: the fragment, cut to noteCount.
GenerateFallback ==
    /\ genPc = "start"
    /\ Len(scaleNotes) = 0
    /\ LET fragment == SubSeq(FALLBACK_FRAGMENT, 1,
                              Min(Len(FALLBACK_FRAGMENT), config.noteCount))
       IN  \E drnds \in [1..Len(fragment) -> DurationDraws(config)] :
               melody' = [k \in 1..Len(fragment) |->
                             NewNote(fragment[k], config, drnds[k])]
    /\ genPc' = "done"
    /\ UNCHANGED <<config, scaleNotes, currentIndex, lastLeapDir, noteIndex,
                   nonGenVars>>

\* generateMelody up to the first note: a chord tone near the centre.
GenerateStart ==
    /\ genPc = "start"
    /\ Len(scaleNotes) # 0
    /\ \E rnd \in RandomValues, drnd \in DurationDraws(config) :
           LET chordTonePCs == getChordTonePitchClasses(config.key, config.scale)
               chordToneIndices == ChordToneIndices(scaleNotes, chordTonePCs)
               start == IF Len(chordToneIndices) > 0
                        THEN chordToneIndices[
                                 randomIndexNearCenter(Len(chordToneIndices), rnd)]
                        ELSE randomIndexNearCenter(Len(scaleNotes), rnd)
           IN  /\ currentIndex' = start
               /\ melody' = <<NewNote(scaleNotes[start], config, drnd)>>
    /\ lastLeapDir' = "null"
    /\ noteIndex' = 1
    /\ genPc' = IF 1 < config.noteCount THEN "walk" ELSE "done"
    /\ UNCHANGED <<config, scaleNotes, nonGenVars>>

\* The index the walk moves to: weightedPick among the candidates, or
\* Math.floor(Math.random() * scaleNotes.length) when there is none.
NextIndex(cfg, notes, current, leapDir, isLastNote, rnd) ==
    LET chordTonePCs == getChordTonePitchClasses(cfg.key, cfg.scale)
        rootPC == RootPC(notes, chordTonePCs)
        candidateIndices == CandidateIndices(notes, current, cfg.maxInterval)
    IN  IF Len(candidateIndices) = 0
        THEN ((rnd * Len(notes)) \div 100) + 1
        ELSE weightedPick(candidateIndices, notes, current, chordTonePCs,
                          rootPC, FifthPC(rootPC), leapDir, isLastNote, rnd)

\* The leap the walk remembers: a move of three scale steps or more.
LeapDir(scaleStepDist) ==
    IF Abs(scaleStepDist) >= 3
    THEN (IF scaleStepDist > 0 THEN "up" ELSE "down")
    ELSE "null"

\* One iteration of the walk: the next note, picked among the candidates or,
\* when there is none, anywhere in the scale notes.
GenerateStep ==
    /\ genPc = "walk"
    /\ noteIndex < config.noteCount
    /\ \E rnd \in RandomValues, drnd \in DurationDraws(config) :
       \E nextIndex \in {NextIndex(config, scaleNotes, currentIndex, lastLeapDir,
                                   noteIndex = config.noteCount - 1, rnd)} :
           /\ lastLeapDir' = LeapDir(nextIndex - currentIndex)
           /\ currentIndex' = nextIndex
           /\ melody' = Append(melody,
                               NewNote(scaleNotes[nextIndex], config, drnd))
    /\ noteIndex' = noteIndex + 1
    /\ genPc' = IF noteIndex + 1 < config.noteCount THEN "walk" ELSE "done"
    /\ UNCHANGED <<config, scaleNotes, nonGenVars>>

NextGenerate == GenerateFallback \/ GenerateStart \/ GenerateStep

SpecGenerate == InitGenerate /\ [][NextGenerate]_vars

-----------------------------------------------------------------------------
(* Claims about the generator, checked under SpecGenerate *)

Returned == genPc = "done"

C9_WalkHasNoteCountNotes ==
    Returned /\ Len(scaleNotes) # 0 => Len(melody) = config.noteCount
C9_FallbackIsCutNotPadded ==
    Returned /\ Len(scaleNotes) = 0 =>
        Len(melody) = (IF config.noteCount < 4 THEN config.noteCount ELSE 4)

\* The distance in semitones between the notes k and k + 1 of the melody.
PitchDistance(k) ==
    IF melody[k + 1].midi >= melody[k].midi
    THEN melody[k + 1].midi - melody[k].midi
    ELSE melody[k].midi - melody[k + 1].midi

\* Some pitch the scale provider returned lies 1..maxInterval semitones from
\* the note k of the melody.
PitchInReach(k) ==
    \E j \in 1..Len(scaleNotes) :
        \/ scaleNotes[j] - melody[k].midi \in 1..config.maxInterval
        \/ melody[k].midi - scaleNotes[j] \in 1..config.maxInterval

C11_WitnessFallback ==
    Returned /\ Len(scaleNotes) = 0 /\ Len(melody) = 4 /\ config.octave # 4

-----------------------------------------------------------------------------
(* The progressive-difficulty ladder (progressiveDifficulty)                *)
(*                                                                         *)
(* The config of a level is a record with the fields of its object         *)
(* literal.  An allowedDurations array is [ref, items]: ref names the      *)
(* array object (each literal of the table is an object of its own, and    *)
(* !== compares arrays by identity), items are its durations in half       *)
(* beats.                                                                  *)

Null == [null |-> TRUE]

DurationsArray(ref, items) == [ref |-> ref, items |-> items]

\* A level config that also carried a key.
LevelConfigWithKey(noteCount, maxInterval, rhythmMode, tempo) ==
    [noteCount |-> noteCount, maxInterval |-> maxInterval,
     rhythmMode |-> rhythmMode, tempo |-> tempo, key |-> "C"]

LevelConfig(noteCount, maxInterval, rhythmMode, tempo) ==
    [noteCount |-> noteCount, maxInterval |-> maxInterval,
     rhythmMode |-> rhythmMode, tempo |-> tempo]

RhythmLevelConfig(noteCount, maxInterval, tempo, durations) ==
    [noteCount |-> noteCount, maxInterval |-> maxInterval, rhythmMode |-> TRUE,
     tempo |-> tempo, allowedDurations |-> durations]

Level(level, name, streakRequired, cfg) ==
    [level |-> level, name |-> name, streakRequired |-> streakRequired,
     config |-> cfg]

DIFFICULTY_LEVELS ==
    <<Level(1, "Beginner", 0, LevelConfig(3, 3, FALSE, 100)),
      Level(2, "Easy", 3, LevelConfig(4, 5, FALSE, 100)),
      Level(3, "Moderate", 6, LevelConfig(4, 7, FALSE, 100)),
      Level(4, "Intermediate", 10,
            RhythmLevelConfig(5, 7, 100, DurationsArray(4, <<1, 2>>))),
      Level(5, "Challenging", 15,
            RhythmLevelConfig(5, 9, 110, DurationsArray(5, <<1, 2, 4>>))),
      Level(6, "Advanced", 20,
            RhythmLevelConfig(6, 9, 120, DurationsArray(6, <<1, 2, 3, 4>>))),
      Level(7, "Expert", 26,
            RhythmLevelConfig(7, 12, 140, DurationsArray(7, <<1, 2, 3, 4>>))),
      Level(8, "Master", 33,
            RhythmLevelConfig(8, 12, 160, DurationsArray(8, <<1, 2, 3, 4>>)))>>

\* A loop that keeps a level only when the streak is beyond its threshold.
getLevelForStreakStrict(streak) ==
    LET best[k \in 0..Len(DIFFICULTY_LEVELS)] ==
            IF k = 0 THEN DIFFICULTY_LEVELS[1]
            ELSE IF streak > DIFFICULTY_LEVELS[k].streakRequired
                 THEN DIFFICULTY_LEVELS[k]
                 ELSE best[k - 1]
    IN  best[Len(DIFFICULTY_LEVELS)]

\* The loop over the table: best after the first k levels.
getLevelForStreak(streak) ==
    LET best[k \in 0..Len(DIFFICULTY_LEVELS)] ==
            IF k = 0 THEN DIFFICULTY_LEVELS[1]
            ELSE IF streak >= DIFFICULTY_LEVELS[k].streakRequired
                 THEN DIFFICULTY_LEVELS[k]
                 ELSE best[k - 1]
    IN  best[Len(DIFFICULTY_LEVELS)]

\* DIFFICULTY_LEVELS.indexOf(level), 1-based.
IndexOfLevel(level) ==
    CHOOSE k \in 1..Len(DIFFICULTY_LEVELS) : DIFFICULTY_LEVELS[k] = level

\* A getNextLevel that never returns null: it stays on the last level.
getNextLevelClamped(streak) ==
    LET nextIdx == IndexOfLevel(getLevelForStreak(streak)) + 1
    IN  IF nextIdx > Len(DIFFICULTY_LEVELS)
        THEN DIFFICULTY_LEVELS[Len(DIFFICULTY_LEVELS)]
        ELSE DIFFICULTY_LEVELS[nextIdx]

getNextLevel(streak) ==
    LET nextIdx == IndexOfLevel(getLevelForStreak(streak)) + 1
    IN  IF nextIdx > Len(DIFFICULTY_LEVELS) THEN Null
        ELSE DIFFICULTY_LEVELS[nextIdx]

getDifficultyForStreak(streak) == getLevelForStreak(streak).config

getBaseDifficulty == DIFFICULTY_LEVELS[1].config

\* Object.keys of a level config, in the order of its literal.
ObjectKeys(cfg) ==
    SelectSeq(<<"noteCount", "maxInterval", "rhythmMode", "tempo",
                "allowedDurations">>,
              LAMBDA key : key \in DOMAIN cfg)

\* A comparison that never finds two arrays equal.
FieldDiffersArraysNeverEqual(fromConfig, toConfig, key) ==
    IF key \notin DOMAIN fromConfig THEN TRUE
    ELSE key = "allowedDurations" \/ fromConfig[key] # toConfig[key]

\* fromConfig[key] !== toConfig[key] for a key of toConfig: a key fromConfig
\* lacks reads undefined.
FieldDiffers(fromConfig, toConfig, key) ==
    IF key \notin DOMAIN fromConfig THEN TRUE
    ELSE fromConfig[key] # toConfig[key]

getChangedFields(from, to) ==
    LET fromConfig == getDifficultyForStreak(from)
        toConfig == getDifficultyForStreak(to)
    IN  SelectSeq(ObjectKeys(toConfig),
                  LAMBDA key : FieldDiffers(fromConfig, toConfig, key))

-----------------------------------------------------------------------------
(* The calls of the ladder functions *)

MaxStreak == 35     \* largest streak passed to the ladder

Streaks == -2..MaxStreak

InitLadder ==
    /\ ComparatorIdle
    /\ GeneratorIdle
    /\ GameIdle
    /\ fromStreak \in Streaks
    /\ toStreak \in Streaks
    /\ ladderCall = "none"
    /\ ladderResult = [pending |-> TRUE]

LadderReturns(name, value) ==
    /\ ladderCall = "none"
    /\ ladderCall' = name
    /\ ladderResult' = value
    /\ UNCHANGED <<fromStreak, toStreak, nonLadderVars>>

CallGetLevelForStreak ==
    LadderReturns("getLevelForStreak", getLevelForStreak(toStreak))

CallGetNextLevel ==
    LadderReturns("getNextLevel", getNextLevel(toStreak))

CallGetChangedFields ==
    LadderReturns("getChangedFields", getChangedFields(fromStreak, toStreak))

NextLadder == CallGetLevelForStreak \/ CallGetNextLevel \/ CallGetChangedFields

SpecLadder == InitLadder /\ [][NextLadder]_vars

-----------------------------------------------------------------------------
(* Claims about the ladder, checked under SpecLadder *)

LevelSet == {DIFFICULTY_LEVELS[k] : k \in 1..Len(DIFFICULTY_LEVELS)}
FirstLevel == DIFFICULTY_LEVELS[1]
LastLevel == DIFFICULTY_LEVELS[Len(DIFFICULTY_LEVELS)]

\* C12: for every integer streak, negative ones included, getLevelForStreak
\* returns the highest level whose streakRequired is at most the streak, and
\* the first level when no threshold is met; the level number does not
\* decrease as the streak grows, and streak 0 gives the first level.
C12_LevelForStreak ==
    ladderCall = "getLevelForStreak" =>
        LET met == {l \in LevelSet : l.streakRequired <= toStreak}
        IN  /\ ladderResult \in LevelSet
            /\ IF met = {} THEN ladderResult = FirstLevel
               ELSE /\ ladderResult \in met
                    /\ \A l \in met : l.level <= ladderResult.level
            /\ \A s \in Streaks :
                   s <= toStreak => getLevelForStreak(s).level <= ladderResult.level
            /\ toStreak = 0 => ladderResult = FirstLevel

\* getLevelForStreak called with a negative streak.
C12_Witness ==
    /\ ladderCall = "getLevelForStreak"
    /\ toStreak < 0
    /\ ladderResult = FirstLevel

\* getLevelForStreak called with a streak that is exactly a threshold.
C12_WitnessThreshold ==
    /\ ladderCall = "getLevelForStreak"
    /\ toStreak = 10
    /\ ladderResult.level = 4

\* C13: getNextLevel returns the table entry right after
\* getLevelForStreak(streak): its level number is one higher and its
\* streakRequired is above the streak; it returns null exactly when
\* getLevelForStreak(streak) is the last level, that is when streak >= 33.
C13_NextLevel ==
    ladderCall = "getNextLevel" =>
        LET current == getLevelForStreak(toStreak)
        IN  /\ (ladderResult = Null) <=> (current = LastLevel)
            /\ (ladderResult = Null) <=> (toStreak >= 33)
            /\ ladderResult # Null =>
                   /\ ladderResult \in LevelSet
                   /\ ladderResult.level = current.level + 1
                   /\ ladderResult.streakRequired > toStreak
                   /\ ladderResult = DIFFICULTY_LEVELS[IndexOfLevel(current) + 1]

\* getNextLevel called on the last level.
C13_Witness ==
    /\ ladderCall = "getNextLevel"
    /\ toStreak > 33
    /\ ladderResult = Null

\* getNextLevel called one round before a threshold.
C13_WitnessBelowThreshold ==
    /\ ladderCall = "getNextLevel"
    /\ toStreak = 32
    /\ ladderResult = LastLevel

\* The auto-scaled fields, and the difference of a field between two overrides
\* as the claim counts it: present in one only, or of different value, two
\* duration lists of the same elements being equal.
AutoScaledFields ==
    {"noteCount", "maxInterval", "rhythmMode", "tempo", "allowedDurations"}
ClaimFieldValue(cfg, field) ==
    IF field = "allowedDurations" THEN cfg[field].items ELSE cfg[field]
ClaimFieldDiffers(a, b, field) ==
    IF field \in DOMAIN a /\ field \in DOMAIN b
    THEN ClaimFieldValue(a, field) # ClaimFieldValue(b, field)
    ELSE field \in DOMAIN a \/ field \in DOMAIN b
SeqRange(s) == {s[k] : k \in 1..Len(s)}

\* C14: getChangedFields(a, b) is exactly the set of auto-scaled fields whose
\* values differ between the overrides of the levels of a and of b, and is
\* the same set for (a, b) and (b, a).
C14_ChangedFieldsIsSymmetricDifference ==
    ladderCall = "getChangedFields" =>
        /\ SeqRange(ladderResult) =
               {f \in AutoScaledFields :
                   ClaimFieldDiffers(getDifficultyForStreak(fromStreak),
                                     getDifficultyForStreak(toStreak), f)}
        /\ SeqRange(ladderResult) = SeqRange(getChangedFields(toStreak, fromStreak))

\* C15: getChangedFields is empty for two streaks of the same level, and so
\* for a streak and itself.
C15_NoChangeWithinALevel ==
    ladderCall = "getChangedFields"
    /\ getLevelForStreak(fromStreak) = getLevelForStreak(toStreak)
        => ladderResult = <<>>

\* getChangedFields called with two different streaks of one rhythm level.
C15_Witness ==
    /\ ladderCall = "getChangedFields"
    /\ fromStreak # toStreak
    /\ getLevelForStreak(fromStreak) = getLevelForStreak(toStreak)
    /\ "allowedDurations" \in DOMAIN getDifficultyForStreak(toStreak)
    /\ ladderResult = <<>>

\* getChangedFields called with a streak and itself.
C15_WitnessSameStreak ==
    /\ ladderCall = "getChangedFields"
    /\ fromStreak = toStreak
    /\ ladderResult = <<>>

-----------------------------------------------------------------------------
(* The game state: types/index.ts and hooks/useGameState.ts *)

DEFAULT_DIFFICULTY ==
    [noteCount |-> 4, scale |-> "major", key |-> "C", tempo |-> 100,
     maxInterval |-> 7, rhythmMode |-> FALSE, octave |-> 4]

\* The object spread { ...base, ...partial }.
Spread(base, partial) ==
    [k \in DOMAIN base \cup DOMAIN partial |->
        IF k \in DOMAIN partial THEN partial[k] ELSE base[k]]

\* The loop of generateMelody from iteration i on, every Math.random() of the
\* call returning rnd.
RECURSIVE generateMelodyWalk(_, _, _, _, _, _, _)
generateMelodyWalk(cfg, notes, mel, current, leapDir, i, rnd) ==
    IF i >= cfg.noteCount THEN mel
    ELSE LET nextIndex == NextIndex(cfg, notes, current, leapDir,
                                    i = cfg.noteCount - 1, rnd)
         IN  generateMelodyWalk(cfg, notes,
                                Append(mel, NewNote(notes[nextIndex], cfg, rnd)),
                                nextIndex, LeapDir(nextIndex - current),
                                i + 1, rnd)

\* generateMelody as the reducer and the hook call it, with the scale notes
\* of getScaleNotesInRange and every Math.random() of the call returning rnd.
generateMelody(cfg, rnd) ==
    LET notes == getScaleNotesInRange(cfg.key, cfg.scale, lowMidi, highMidi)
        chordTonePCs == getChordTonePitchClasses(cfg.key, cfg.scale)
        chordToneIndices == ChordToneIndices(notes, chordTonePCs)
        start == IF Len(chordToneIndices) > 0
                 THEN chordToneIndices[
                          randomIndexNearCenter(Len(chordToneIndices), rnd)]
                 ELSE randomIndexNearCenter(Len(notes), rnd)
        fragment == SubSeq(FALLBACK_FRAGMENT, 1,
                           Min(Len(FALLBACK_FRAGMENT), cfg.noteCount))
    IN  IF Len(notes) = 0
        THEN [k \in 1..Len(fragment) |-> NewNote(fragment[k], cfg, rnd)]
        ELSE generateMelodyWalk(cfg, notes,
                                <<NewNote(notes[start], cfg, rnd)>>,
                                start, "null", 1, rnd)

createInitialRound ==
    [phase |-> "setup", targetMelody |-> <<>>, playedNotes |-> <<>>,
     comparison |-> Null, roundNumber |-> 0, replaysUsed |-> 0]

createInitialState ==
    [round |-> createInitialRound, difficulty |-> DEFAULT_DIFFICULTY]

\* UPDATE_DIFFICULTY regenerating the melody in every phase.
UpdateDifficultyInAnyPhase(s, action, rnd) ==
    LET newDifficulty == Spread(s.difficulty, action.difficulty)
    IN  [s EXCEPT !.difficulty = newDifficulty,
                  !.round.targetMelody = generateMelody(newDifficulty, rnd),
                  !.round.replaysUsed = 0]

\* case 'UPDATE_DIFFICULTY' of gameReducer.
UpdateDifficulty(s, action, rnd) ==
    LET newDifficulty == Spread(s.difficulty, action.difficulty)
    IN  IF s.round.phase = "listening" /\ Len(s.round.playedNotes) = 0
        THEN [s EXCEPT !.difficulty = newDifficulty,
                       !.round.targetMelody = generateMelody(newDifficulty, rnd),
                       !.round.replaysUsed = 0]
        ELSE [s EXCEPT !.difficulty = newDifficulty]

\* gameReducer(state, action); rnd is what Math.random() returns to the
\* generator when the reducer calls it.
gameReducer(s, action, rnd) ==
    CASE action.type = "MIDI_CONNECTED" ->
           IF s.round.phase # "setup" THEN s
           ELSE [s EXCEPT !.round.phase = "listening",
                          !.round.targetMelody = generateMelody(s.difficulty, rnd),
                          !.round.roundNumber = 1]
      [] action.type = "START_LISTENING" ->
           [s EXCEPT !.round.phase = "listening",
                     !.round.targetMelody = action.melody]
      [] action.type = "REPLAY" ->
           IF s.round.phase # "listening" THEN s
           ELSE [s EXCEPT !.round.replaysUsed = s.round.replaysUsed + 1]
      [] action.type = "START_COUNTING_IN" ->
           IF s.round.phase # "listening" THEN s
           ELSE [s EXCEPT !.round.phase = "counting-in"]
      [] action.type = "START_PLAYING" ->
           IF s.round.phase # "listening" /\ s.round.phase # "counting-in"
           THEN s
           ELSE [s EXCEPT !.round.phase = "playing",
                          !.round.playedNotes = <<>>]
      [] action.type = "ADD_NOTE" ->
           IF s.round.phase # "playing" THEN s
           ELSE [s EXCEPT !.round.playedNotes = Append(@, action.note)]
      [] action.type = "FINISH_PLAYING" ->
           IF s.round.phase # "playing" THEN s
           ELSE [s EXCEPT !.round.phase = "review",
                          !.round.comparison =
                              compareMelodiesPositional(
                                  s.round.targetMelody, s.round.playedNotes,
                                  [rhythmMode |-> s.difficulty.rhythmMode,
                                   tempo |-> s.difficulty.tempo])]
      [] action.type = "NEXT_ROUND" ->
           [s EXCEPT !.round =
               [phase |-> "listening", targetMelody |-> action.melody,
                playedNotes |-> <<>>, comparison |-> Null,
                roundNumber |-> s.round.roundNumber + 1, replaysUsed |-> 0]]
      [] action.type = "UPDATE_DIFFICULTY" -> UpdateDifficulty(s, action, rnd)
      [] action.type = "RESET" -> createInitialState
      [] OTHER -> s

-----------------------------------------------------------------------------
(* The session statistics: hooks/useStats.ts *)

MAX_HISTORY == 100

\* A RoundRecord of the history, by its perfect flag; the other fields
\* (timestamp, score, noteCount, scale, key, replaysUsed, bonusPoints) are
\* written once and read by no handler.
RoundRecord(perfect) == [perfect |-> perfect]

\* array.slice(-n): the last n elements.
SliceLast(array, n) ==
    IF Len(array) <= n THEN array
    ELSE SubSeq(array, Len(array) - n + 1, Len(array))

\* SessionStats; totalXP, which no handler reads back, is left out.
Stats(currentStreak, bestStreak, totalRounds, totalPerfects, roundHistory) ==
    [currentStreak |-> currentStreak, bestStreak |-> bestStreak,
     totalRounds |-> totalRounds, totalPerfects |-> totalPerfects,
     roundHistory |-> roundHistory]

getDefaultStats == Stats(0, 0, 0, 0, <<>>)

\* A JavaScript value with its type, as the strict equality === sees it: two
\* values of different types are never equal.
JsNumber(n) == [type |-> "number", value |-> n]
JsObject(o) == [type |-> "object", value |-> o]
StrictEquals(a, b) == a.type = b.type /\ a.value = b.value

\* recordRound(score, difficulty, replaysUsed) on the statistics st.
recordRound(st, score, difficulty, replaysUsed) ==
    LET perfect == StrictEquals(score, JsNumber(100))
        newStreak == IF perfect THEN st.currentStreak + 1 ELSE 0
    IN  Stats(newStreak,
              Max(st.bestStreak, newStreak),
              st.totalRounds + 1,
              st.totalPerfects + (IF perfect THEN 1 ELSE 0),
              SliceLast(Append(st.roundHistory, RoundRecord(perfect)),
                        MAX_HISTORY))

-----------------------------------------------------------------------------
(* The App: its effects and handlers *)

MaxRounds == 3            \* rounds of a session
MaxWrongNotes == 1        \* notes of a round played off the target's pitch
MaxChangedSettings == 1   \* user settings away from their defaults at a time
maxReplays == 2

PersistedStreaks == {0, 12}         \* currentStreak found in localStorage
UserKeys == {"C", "Db"}
UserScales == {"major", "blues"}
UserOctaves == {4, 5}
GameRandomValues == {0, 99}         \* values of Math.random(), in hundredths

LongSessionRounds == 99             \* rounds of a long stored session
StoredHistory(n, perfect) == [k \in 1..n |-> RoundRecord(perfect)]

\* loadStats: the defaults, or what an earlier session stored.
loadStats ==
    {Stats(n, n, n, n, StoredHistory(n, TRUE)) : n \in PersistedStreaks}

\* loadStats after a long session without a perfect round.
loadLongSessionStats ==
    Stats(0, 0, LongSessionRounds, 0, StoredHistory(LongSessionRounds, FALSE))

\* What the user can pick in the UserSettingsPanel: one field at a time.
UserSettingsChanges ==
    {[key |-> k] : k \in UserKeys} \cup {[scale |-> s] : s \in UserScales}
    \cup {[octave |-> o] : o \in UserOctaves}

\* The record effect without the guard of hasRecordedRef.
RecordEffectWithoutRef(s, st, recorded) ==
    IF s.round.phase = "review" /\ s.round.comparison # Null
    THEN [stats |-> recordRound(st, JsObject(s.round.comparison),
                                s.difficulty, s.round.replaysUsed),
          hasRecordedRef |-> TRUE]
    ELSE [stats |-> st, hasRecordedRef |-> FALSE]

\* The effect "Record stats when entering review phase", run after a render
\* with game state s, statistics st and hasRecordedRef.current = recorded.
RecordEffect(s, st, recorded) ==
    IF s.round.phase = "review" /\ s.round.comparison # Null /\ ~recorded
    THEN [stats |-> recordRound(st, JsObject(s.round.comparison),
                                s.difficulty, s.round.replaysUsed),
          hasRecordedRef |-> TRUE]
    ELSE [stats |-> st,
          hasRecordedRef |-> IF s.round.phase # "review" THEN FALSE
                             ELSE recorded]

\* A state change followed by the render and the effects it triggers.
Commit(newState, newStats) ==
    /\ state' = newState
    /\ LET effect == RecordEffect(newState, newStats, hasRecordedRef)
       IN  /\ stats' = effect.stats
           /\ hasRecordedRef' = effect.hasRecordedRef

InitGame ==
    /\ ComparatorIdle
    /\ GeneratorIdle
    /\ LadderIdle
    /\ state = createInitialState
    /\ stats \in loadStats
    /\ prevStreakRef = stats.currentStreak
    /\ hasRecordedRef = FALSE
    /\ hasStartedRef = FALSE
    /\ userSettings = [key |-> DEFAULT_DIFFICULTY.key,
                       scale |-> DEFAULT_DIFFICULTY.scale,
                       octave |-> DEFAULT_DIFFICULTY.octave]
    /\ roundStartMelody = <<>>

\* The effect "When MIDI connects": the first connection starts round 1.
onMidiConnected ==
    /\ state.round.phase = "setup"
    /\ ~hasStartedRef
    /\ hasStartedRef' = TRUE
    /\ \E rnd \in GameRandomValues :
           \E s \in {gameReducer(state, [type |-> "MIDI_CONNECTED"], rnd)} :
               /\ Commit(s, stats)
               /\ roundStartMelody' = s.round.targetMelody
    /\ UNCHANGED <<prevStreakRef, userSettings, nonGameVars>>

\* handlePlayMelody: the Play / Replay button of the listening phase.
handlePlayMelody ==
    /\ state.round.phase = "listening"
    /\ state.round.replaysUsed < maxReplays
    /\ Commit(gameReducer(state, [type |-> "REPLAY"], 0), stats)
    /\ UNCHANGED <<prevStreakRef, hasStartedRef, userSettings,
                   roundStartMelody, nonGameVars>>

\* game.updateDifficulty as the UserSettingsPanel calls it: enabled outside
\* the playing and counting-in phases, one changed field per call.
updateDifficulty ==
    /\ state.round.phase \in {"listening", "review"}
    /\ \E change \in UserSettingsChanges, rnd \in GameRandomValues :
           /\ \E k \in DOMAIN change : change[k] # state.difficulty[k]
           /\ Cardinality({k \in DOMAIN userSettings :
                   Spread(userSettings, change)[k] # DEFAULT_DIFFICULTY[k]})
                  <= MaxChangedSettings
           /\ Commit(gameReducer(state, [type |-> "UPDATE_DIFFICULTY",
                                         difficulty |-> change], rnd), stats)
           /\ userSettings' = Spread(userSettings, change)
    /\ UNCHANGED <<prevStreakRef, hasStartedRef, roundStartMelody, nonGameVars>>

\* handleReady: without rhythm mode it starts the playing phase; with rhythm
\* mode it starts the count-in and, when the count-in has played, the
\* playing phase.
handleReady ==
    /\ \/ state.round.phase = "listening" /\ state.round.replaysUsed > 0
       \/ state.round.phase = "counting-in"
    /\ LET type == IF state.round.phase = "listening"
                      /\ state.difficulty.rhythmMode
                   THEN "START_COUNTING_IN" ELSE "START_PLAYING"
       IN  Commit(gameReducer(state, [type |-> type], 0), stats)
    /\ UNCHANGED <<prevStreakRef, hasStartedRef, userSettings,
                   roundStartMelody, nonGameVars>>

\* The time of the k-th played note: on the beat of a quarter note at 100 BPM.
PlayedTime(k) == Ms(600 * (k - 1))

\* The played notes of the round that are off the target's pitch.
WrongNotes(round) ==
    {k \in 1..Len(round.playedNotes) :
        round.playedNotes[k].midi # round.targetMelody[k].midi}

\* The MIDI note-on handler: a note is captured in the playing phase; the
\* user plays the pitch of the target at that place, or the semitone above.
onNoteOn ==
    /\ state.round.phase = "playing"
    /\ Len(state.round.playedNotes) < Len(state.round.targetMelody)
    /\ LET k == Len(state.round.playedNotes) + 1
           right == state.round.targetMelody[k].midi
           wrong == IF Cardinality(WrongNotes(state.round)) < MaxWrongNotes
                    THEN {right + 1} ELSE {}
       IN  \E midi \in {right} \cup wrong :
               Commit(gameReducer(state,
                                  [type |-> "ADD_NOTE",
                                   note |-> [midi |-> midi,
                                             time |-> PlayedTime(k)]], 0),
                      stats)
    /\ UNCHANGED <<prevStreakRef, hasStartedRef, userSettings,
                   roundStartMelody, nonGameVars>>

\* game.finishPlaying: the Done button, enabled once a note is played, or the
\* timer of the auto-finish effect, set once the played notes are as many as
\* the target's.
finishPlaying ==
    /\ state.round.phase = "playing"
    /\ Len(state.round.playedNotes) > 0
    /\ Commit(gameReducer(state, [type |-> "FINISH_PLAYING"], 0), stats)
    /\ UNCHANGED <<prevStreakRef, hasStartedRef, userSettings,
                   roundStartMelody, nonGameVars>>

\* game.nextRound() on the state s: the callback generates the melody from
\* the state.difficulty of the render it was created in, then dispatches
\* NEXT_ROUND.
nextRound(s, renderedDifficulty, rnd) ==
    gameReducer(s, [type |-> "NEXT_ROUND",
                    melody |-> generateMelody(renderedDifficulty, rnd)], rnd)

\* handleNextRound: the Next Round button of the review phase.  Its
\* game.updateDifficulty only dispatches, so the game.nextRound() that
\* follows still sees the difficulty of the render the handler was created
\* in.
handleNextRound ==
    /\ state.round.phase = "review"
    /\ state.round.roundNumber < MaxRounds
    /\ \E rnd \in GameRandomValues :
           LET currentStreak == stats.currentStreak
               previousStreak == prevStreakRef
               updated ==
                   IF currentStreak = 0 /\ previousStreak > 0
                   THEN gameReducer(state,
                                    [type |-> "UPDATE_DIFFICULTY",
                                     difficulty |-> getBaseDifficulty], rnd)
                   ELSE IF currentStreak > previousStreak /\ currentStreak > 0
                   THEN gameReducer(state,
                                    [type |-> "UPDATE_DIFFICULTY",
                                     difficulty |->
                                         getDifficultyForStreak(currentStreak)],
                                    rnd)
                   ELSE state
           IN  \E s \in {nextRound(updated, state.difficulty, rnd)} :
                   /\ Commit(s, stats)
                   /\ roundStartMelody' = s.round.targetMelody
    /\ prevStreakRef' = stats.currentStreak
    /\ UNCHANGED <<hasStartedRef, userSettings, nonGameVars>>

\* resetStats: the reset of the stats panel, reachable once a round is
\* recorded.
resetStats ==
    /\ stats.totalRounds > 0
    /\ Commit(state, getDefaultStats)
    /\ UNCHANGED <<prevStreakRef, hasStartedRef, userSettings,
                   roundStartMelody, nonGameVars>>

NextGame ==
    \/ onMidiConnected
    \/ handlePlayMelody
    \/ updateDifficulty
    \/ handleReady
    \/ onNoteOn
    \/ finishPlaying
    \/ handleNextRound
    \/ resetStats

SpecGame == InitGame /\ [][NextGame]_vars

-----------------------------------------------------------------------------
(* Claims about the game, checked under SpecGame *)

UserOwnedFields == {"key", "scale", "octave"}

\* The difficulty after the override of a ladder level is applied to the
\* current state.
WithOverride(level) ==
    gameReducer(state, [type |-> "UPDATE_DIFFICULTY",
                        difficulty |-> level.config], 0).difficulty

\* C16: no level of the ladder carries key, scale or octave in its override;
\* after any sequence of rounds and ladder applications the key, scale and
\* octave of the difficulty config are the values the user set last (the
\* defaults before that), and applying the override of any level leaves these
\* three fields as they are.
C16_UserSettingsSurviveLadder ==
    /\ \A level \in LevelSet : DOMAIN level.config \cap UserOwnedFields = {}
    /\ \A field \in UserOwnedFields :
           state.difficulty[field] = userSettings[field]
    /\ \A level \in LevelSet :
           \E difficulty \in {WithOverride(level)} :
               \A field \in UserOwnedFields :
                   difficulty[field] = state.difficulty[field]

\* The base override was merged (three notes instead of the default four)
\* into a config whose key the user had changed.
C16_Witness ==
    /\ state.round.roundNumber >= 2
    /\ state.difficulty.noteCount = getBaseDifficulty.noteCount
    /\ state.difficulty.maxInterval = getBaseDifficulty.maxInterval
    /\ userSettings.key = "Db"
    /\ state.difficulty.key = "Db"

\* A step that ends a round: finishPlaying, with the recording of the round.
RoundScored == state.round.phase = "playing" /\ state'.round.phase = "review"

\* C17: over any sequence of recorded rounds, the streak grows by exactly 1
\* after a round whose pitchScore is 100 and becomes 0 after a round whose
\* pitchScore is below 100.
C17_StreakFollowsPitchScore ==
    [][RoundScored =>
           stats'.currentStreak =
               IF state'.round.comparison.pitchScore = 100
               THEN stats.currentStreak + 1 ELSE 0]_vars

\* What recordRound does with the comparison object it is handed: no round
\* is perfect, so every recorded round leaves the streak at 0.
C17_EveryRecordedRoundResetsStreak ==
    [][RoundScored =>
           /\ stats'.currentStreak = 0
           /\ stats'.totalRounds = stats.totalRounds + 1
           /\ stats'.totalPerfects = stats.totalPerfects]_vars

\* A round played exactly as the target, recorded, with the streak at 0.
C17_PerfectRoundRecorded ==
    /\ state.round.phase = "review"
    /\ hasRecordedRef
    /\ state.round.comparison.pitchScore = 100
    /\ stats.totalRounds > 0
    /\ stats.currentStreak = 0

\* A step that begins a round after the first: handleNextRound.
RoundBegins ==
    /\ state.round.roundNumber >= 1
    /\ state'.round.roundNumber = state.round.roundNumber + 1

AutoScaledConfigFields == {"noteCount", "maxInterval", "rhythmMode", "tempo"}

\* C18: when a round after the first begins, from fresh defaults or from a
\* persisted streak, the noteCount, maxInterval, rhythmMode and tempo of the
\* config are those of the override of getLevelForStreak(current streak):
\* the base override after a round that was not perfect, the override of the
\* new streak after a perfect one.
C18_ConfigFollowsLadderAtRoundStart ==
    [][RoundBegins =>
           \A field \in AutoScaledConfigFields :
               state'.difficulty[field] =
                   getDifficultyForStreak(stats'.currentStreak)[field]]_vars

\* Round 2 begun with the default four notes and maxInterval 7 at streak 0,
\* where the first level of the ladder has three notes and maxInterval 3.
C18_DefaultsKeptAtStreakZero ==
    /\ state.round.roundNumber = 2
    /\ state.round.phase = "listening"
    /\ stats.currentStreak = 0
    /\ prevStreakRef = 0
    /\ state.difficulty.noteCount = DEFAULT_DIFFICULTY.noteCount
    /\ state.difficulty.maxInterval = DEFAULT_DIFFICULTY.maxInterval
    /\ getDifficultyForStreak(0).noteCount # DEFAULT_DIFFICULTY.noteCount

\* A step that begins a round, the first included.
RoundStarts == state'.round.roundNumber = state.round.roundNumber + 1

\* C19: the ladder override is merged into the config before the generator
\* is called for the next round, so at the start of every round the target
\* melody has as many notes as the current config's noteCount.
C19_MelodyFromUpdatedConfig ==
    [][RoundStarts =>
           Len(state'.round.targetMelody) = state'.difficulty.noteCount]_vars

\* A round begun with a melody of the note count the config had before the
\* override was merged.
C19_MelodyFromStaleConfig ==
    /\ state.round.roundNumber = 2
    /\ state.round.phase = "listening"
    /\ state.round.replaysUsed = 0
    /\ state.difficulty.noteCount = getBaseDifficulty.noteCount
    /\ Len(state.round.targetMelody) = DEFAULT_DIFFICULTY.noteCount
    /\ Len(state.round.targetMelody) # state.difficulty.noteCount

\* A step within a round that replaces the target melody.
MelodyReplacedWithinRound ==
    /\ state'.round.roundNumber = state.round.roundNumber
    /\ state'.round.targetMelody # state.round.targetMelody

\* C20: the target melody never changes while the round number stays the
\* same: no action (replay, count-in, start playing, add note, finish,
\* difficulty update) replaces targetMelody within a round.
C20_TargetMelodyFixedWithinRound == [][~MelodyReplacedWithinRound]_vars

\* C20, as the reducer has it: within a round the target melody is replaced
\* only by a difficulty update made in the listening phase, which also sets
\* the replay count back to 0; from the start of the count-in or of the
\* playing phase until the next round no action replaces it, so the melody
\* scored in review is the one that was in place when listening ended.
C20_TargetMelodyReplacedOnlyWhileListening ==
    [][MelodyReplacedWithinRound =>
           /\ state.round.phase = "listening"
           /\ state'.round.phase = "listening"
           /\ state'.difficulty # state.difficulty
           /\ state'.round.replaysUsed = 0]_vars

\* A round scored in review on a melody that replaced, during listening, the
\* one the round began with.
C20_Witness ==
    /\ state.round.phase = "review"
    /\ state.round.comparison # Null
    /\ state.round.targetMelody # roundStartMelody
    /\ Len(state.round.comparison.targetMarks) = Len(state.round.targetMelody)
    /\ userSettings.key = "Db"

-----------------------------------------------------------------------------
(* Further claims about the comparator, checked under SpecCompare *)

\* The backtrack with ties resolved by stepping back in the target: on
\* differing pitches i-- when dp[i-1][j] >= dp[i][j-1].
RECURSIVE ClaimBacktrack(_, _, _, _, _)
ClaimBacktrack(t, p, dp, i, j) ==
    IF i = 0 \/ j = 0 THEN <<>>
    ELSE IF t[i] = p[j]
         THEN Append(ClaimBacktrack(t, p, dp, i - 1, j - 1), <<i, j>>)
    ELSE IF dp[i - 1, j] >= dp[i, j - 1]
         THEN ClaimBacktrack(t, p, dp, i - 1, j)
    ELSE ClaimBacktrack(t, p, dp, i, j - 1)

ClaimMatchedPairs(tgt, pl) ==
    LET t == Midis(tgt)
        p == Midis(pl)
    IN  ClaimBacktrack(t, p, LcsTable(t, p), Len(t), Len(p))

\* C25: the LCS backtrack of compareMelodies is deterministic and, when the
\* current pitches differ and the two neighbouring table values are equal,
\* moves the target pointer: the matched pairs, and the marks of the result,
\* are those of the backtrack that resolves ties that way.
C25_TiesMoveTargetPointer ==
    (Computed(result) /\ NonDegenerate) =>
        LET pairs == ClaimMatchedPairs(target, played)
        IN  /\ MatchedPairs(target, played) = pairs
            /\ \A i \in 1..Len(target) :
                   result.targetMarks[i] = "correct" <=> InAlignment(pairs, 1, i)
            /\ \A j \in 1..Len(played) :
                   result.playedMarks[j] = "correct" <=> InAlignment(pairs, 2, j)

\* Target 60 62 played 62 60: the tie at the first step moves the played
\* pointer, and the pair found joins the second target note to the first
\* played note.
C25_TieMovesPlayedPointer ==
    /\ Computed(result)
    /\ Midis(target) = <<60, 62>>
    /\ Midis(played) = <<62, 60>>
    /\ MatchedPairs(target, played) = << <<2, 1>> >>
    /\ result.targetMarks = <<"missing", "correct">>
    /\ result.playedMarks = <<"correct", "wrong">>

\* The results of the two versions of compareMelodies on the inputs of this
\* run: the one the run computed and the other one applied to the same inputs.
LcsResult ==
    IF Computed(result) THEN result
    ELSE compareMelodies(target, played, options)

PositionalResult ==
    IF Computed(resultPositional) THEN resultPositional
    ELSE compareMelodiesPositional(target, played, options)

Compared == Computed(result) \/ Computed(resultPositional)

\* C27: on the same inputs the pitch score of the LCS version is at least the
\* pitch score of the positional version; on an empty target or an empty played
\* sequence the two versions return the same result; and when the played
\* pitches are the target pitches, in order, the two results are identical.
C27_LcsGeneralizesPositional ==
    Compared =>
        /\ LcsResult.pitchScore >= PositionalResult.pitchScore
        /\ (target = <<>> \/ played = <<>>) => LcsResult = PositionalResult
        /\ Midis(played) = Midis(target) => LcsResult = PositionalResult

\* A played sequence shifted by one inserted note: the LCS version finds the
\* target notes, the positional version finds none.
C27_Witness ==
    /\ Computed(result)
    /\ NonDegenerate
    /\ Midis(played) # Midis(target)
    /\ LcsResult.pitchScore > PositionalResult.pitchScore
    /\ PositionalResult.pitchScore = 0

C27_WitnessBothEmpty ==
    Compared /\ target = <<>> /\ played = <<>> /\ LcsResult = PositionalResult

C27_WitnessEmptyTarget ==
    Compared /\ target = <<>> /\ played # <<>> /\ LcsResult = PositionalResult

C27_WitnessEmptyPlayed ==
    Compared /\ target # <<>> /\ played = <<>> /\ LcsResult = PositionalResult

C27_WitnessSamePitchesWithRhythm ==
    /\ Compared
    /\ NonDegenerate
    /\ Midis(played) = Midis(target)
    /\ "rhythmScore" \in DOMAIN LcsResult
    /\ LcsResult.rhythmScore < 100
    /\ LcsResult = PositionalResult

CountMarks(marks, status) ==
    Cardinality({k \in 1..Len(marks) : marks[k] = status})

\* C28: the matched pairs of the LCS backtrack are a valid alignment: every
\* pair joins a target note and a played note of the same pitch, the pairs
\* increase strictly in both indices (so no note is in two pairs), and their
\* number is the LCS length, the number of 'correct' target marks and the
\* number of 'correct' played marks.
C28_MatchedPairsAreAnAlignment ==
    (Computed(result) /\ NonDegenerate) =>
        LET pairs == MatchedPairs(target, played)
        IN  /\ \A k \in 1..Len(pairs) :
                   /\ pairs[k][1] \in 1..Len(target)
                   /\ pairs[k][2] \in 1..Len(played)
                   /\ target[pairs[k][1]].midi = played[pairs[k][2]].midi
            /\ \A k \in 1..(Len(pairs) - 1) :
                   /\ pairs[k][1] < pairs[k + 1][1]
                   /\ pairs[k][2] < pairs[k + 1][2]
            /\ \A k, l \in 1..Len(pairs) :
                   (pairs[k][1] = pairs[l][1] \/ pairs[k][2] = pairs[l][2]) => k = l
            /\ Len(pairs) = TrueLcsLength(Midis(target), Midis(played))
            /\ Len(pairs) = CountMarks(result.targetMarks, "correct")
            /\ Len(pairs) = CountMarks(result.playedMarks, "correct")

\* Target 60 62 64 played 64 60 62: the last target note is skipped and two
\* pairs are found, with notes left unmatched on both sides.
C28_Witness ==
    /\ Computed(result)
    /\ Midis(target) = <<60, 62, 64>>
    /\ Midis(played) = <<64, 60, 62>>
    /\ MatchedPairs(target, played) = << <<1, 2>>, <<2, 3>> >>
    /\ CountMarks(result.targetMarks, "correct") = 2
    /\ CountMarks(result.playedMarks, "correct") = 2

-----------------------------------------------------------------------------
(* The hook useGameState on its own: the callbacks it returns, each called  *)
(* in any phase                                                             *)

MaxHookRounds == 2     \* rounds started through the hook
MaxHookNotes == 3      \* notes handed to addNote between two starts of playing
MaxHookReplays == 1    \* replays counted in a round

HookStreaks == {0, 10, 15}          \* streaks whose ladder override is applied
HookOverrides == {getDifficultyForStreak(s) : s \in HookStreaks}

\* Only the hook is in use: no statistics, no refs of the App.
AppIdle ==
    /\ stats = NoGame
    /\ prevStreakRef = 0
    /\ hasRecordedRef = FALSE
    /\ hasStartedRef = FALSE
    /\ userSettings = NoGame
    /\ roundStartMelody = <<>>

appVars == <<stats, prevStreakRef, hasRecordedRef, hasStartedRef,
             userSettings, roundStartMelody>>

\* useReducer(gameReducer, undefined, createInitialState)
InitHook ==
    /\ ComparatorIdle
    /\ GeneratorIdle
    /\ LadderIdle
    /\ AppIdle
    /\ state = createInitialState

\* dispatch with an ADD_NOTE that is not guarded by the phase.
DispatchAddNoteInAnyPhase(action, rnd) ==
    /\ state' = IF action.type = "ADD_NOTE"
                THEN [state EXCEPT !.round.playedNotes = Append(@, action.note)]
                ELSE gameReducer(state, action, rnd)
    /\ UNCHANGED <<appVars, nonGameVars>>

\* dispatch(action): the state of the next render.
Dispatch(action, rnd) ==
    /\ state' = gameReducer(state, action, rnd)
    /\ UNCHANGED <<appVars, nonGameVars>>

HookOnMidiConnected ==
    \E rnd \in GameRandomValues : Dispatch([type |-> "MIDI_CONNECTED"], rnd)

HookOnReplay ==
    /\ state.round.replaysUsed < MaxHookReplays
    /\ Dispatch([type |-> "REPLAY"], 0)

HookStartCountingIn == Dispatch([type |-> "START_COUNTING_IN"], 0)

HookStartPlaying == Dispatch([type |-> "START_PLAYING"], 0)

\* The notes handed to addNote as the k-th of a take: the pitch of the target
\* at that place or the semitone above it, past the target's end its first
\* pitch.
HookNotes(round) ==
    LET k == Len(round.playedNotes) + 1
        right == IF round.targetMelody = <<>> THEN centerMidi
                 ELSE IF k <= Len(round.targetMelody)
                      THEN round.targetMelody[k].midi
                 ELSE round.targetMelody[1].midi
        wrong == IF k <= Len(round.targetMelody)
                    /\ Cardinality(WrongNotes(round)) < MaxWrongNotes
                 THEN {right + 1} ELSE {}
    IN  {[midi |-> m, time |-> PlayedTime(k)] : m \in {right} \cup wrong}

HookAddNote ==
    /\ Len(state.round.playedNotes) < MaxHookNotes
    /\ \E note \in HookNotes(state.round) :
           Dispatch([type |-> "ADD_NOTE", note |-> note], 0)

HookFinishPlaying == Dispatch([type |-> "FINISH_PLAYING"], 0)

\* nextRound() called on its own: the callback of the last render.
HookNextRound ==
    /\ state.round.roundNumber < MaxHookRounds
    /\ \E rnd \in GameRandomValues :
           /\ state' = nextRound(state, state.difficulty, rnd)
           /\ UNCHANGED <<appVars, nonGameVars>>

\* updateDifficulty(config) with the override of a ladder level.
HookUpdateDifficulty ==
    \E override \in HookOverrides, rnd \in GameRandomValues :
        Dispatch([type |-> "UPDATE_DIFFICULTY", difficulty |-> override], rnd)

\* updateDifficulty(config) and nextRound() called one after the other from
\* one event handler, as handleNextRound does: nextRound is still the
\* callback of the render the handler belongs to.
HookUpdateDifficultyThenNextRound ==
    /\ state.round.roundNumber < MaxHookRounds
    /\ \E override \in HookOverrides, rnd \in GameRandomValues :
           /\ state' = nextRound(gameReducer(state,
                                             [type |-> "UPDATE_DIFFICULTY",
                                              difficulty |-> override], rnd),
                                 state.difficulty, rnd)
           /\ UNCHANGED <<appVars, nonGameVars>>

NextHook ==
    \/ HookOnMidiConnected
    \/ HookOnReplay
    \/ HookStartCountingIn
    \/ HookStartPlaying
    \/ HookAddNote
    \/ HookFinishPlaying
    \/ HookNextRound
    \/ HookUpdateDifficulty
    \/ HookUpdateDifficultyThenNextRound

SpecHook == InitHook /\ [][NextHook]_vars

-----------------------------------------------------------------------------
(* Claims about the hook, checked under SpecHook *)

\* The value of a field of a config, a field that is not there included.
FieldOf(cfg, field) ==
    IF field \in DOMAIN cfg THEN [present |-> TRUE, value |-> cfg[field]]
    ELSE [present |-> FALSE]

\* The difficulty after UPDATE_DIFFICULTY with the override of streak s.
WithStreakOverride(difficulty, s) == Spread(difficulty, getDifficultyForStreak(s))

\* C22: the override of streak s applied to the difficulty config gives
\* values of noteCount, maxInterval, rhythmMode, tempo and allowedDurations
\* that depend on s only, whatever overrides were applied before (so the same
\* values as on the default config), and applying the override of the same
\* level once more changes nothing.
C22_OverrideDependsOnStreakOnly ==
    state.round.roundNumber > 0 =>
        \A s \in Streaks :
            /\ \A field \in AutoScaledFields :
                   FieldOf(WithStreakOverride(state.difficulty, s), field) =
                       FieldOf(WithStreakOverride(DEFAULT_DIFFICULTY, s), field)
            /\ WithStreakOverride(WithStreakOverride(state.difficulty, s), s) =
                   WithStreakOverride(state.difficulty, s)

\* The part of C22 that holds: the fields every level sets depend on the
\* streak only, and the same override applied again changes nothing.
C22_SetFieldsDependOnStreakOnly ==
    state.round.roundNumber > 0 =>
        \A s \in Streaks :
            /\ \A field \in AutoScaledFields \ {"allowedDurations"} :
                   FieldOf(WithStreakOverride(state.difficulty, s), field) =
                       FieldOf(WithStreakOverride(DEFAULT_DIFFICULTY, s), field)
            /\ WithStreakOverride(WithStreakOverride(state.difficulty, s), s) =
                   WithStreakOverride(state.difficulty, s)

\* The first level's override was applied after the fourth's: rhythm mode is
\* off again and the duration list of the fourth level is still in the config.
C22_StaleAllowedDurations ==
    /\ state.round.roundNumber > 0
    /\ state.difficulty.noteCount = getBaseDifficulty.noteCount
    /\ ~state.difficulty.rhythmMode
    /\ "allowedDurations" \in DOMAIN state.difficulty
    /\ "allowedDurations" \notin DOMAIN WithStreakOverride(DEFAULT_DIFFICULTY, 0)

\* What FINISH_PLAYING hands to the comparator on the state s.
ScoringOptions(s) ==
    [rhythmMode |-> s.difficulty.rhythmMode, tempo |-> s.difficulty.tempo]

SameRound == state'.round.roundNumber = state.round.roundNumber
PlayingStarts == state.round.phase # "playing" /\ state'.round.phase = "playing"
PlayingFinishes == state.round.phase = "playing" /\ state'.round.phase = "review"

IsAppendOfOne(before, after) ==
    Len(after) = Len(before) + 1 /\ SubSeq(after, 1, Len(before)) = before

\* C21: the played notes of a round change only by the appending of one note
\* while the phase is 'playing' (ADD_NOTE does nothing in any other phase) or
\* by being emptied when playing or a round starts; they are empty when
\* playing starts; from FINISH_PLAYING to the next round they, the target
\* melody and the comparison stay as they are, and the comparison stored is
\* that of the target melody with exactly these played notes.
C21_PlayedNotesFrozenForComparison ==
    [][/\ state'.round.playedNotes # state.round.playedNotes =>
              \/ /\ state.round.phase = "playing"
                 /\ state'.round.phase = "playing"
                 /\ IsAppendOfOne(state.round.playedNotes,
                                  state'.round.playedNotes)
              \/ /\ state'.round.playedNotes = <<>>
                 /\ PlayingStarts \/ ~SameRound
       /\ state.round.phase # "playing" =>
              \A note \in HookNotes(state.round) :
                  gameReducer(state, [type |-> "ADD_NOTE", note |-> note], 0)
                      = state
       /\ PlayingStarts => state'.round.playedNotes = <<>>
       /\ PlayingFinishes =>
              /\ state'.round.playedNotes = state.round.playedNotes
              /\ state'.round.targetMelody = state.round.targetMelody
              /\ state'.round.comparison =
                     compareMelodiesPositional(state.round.targetMelody,
                                               state.round.playedNotes,
                                               ScoringOptions(state))
       /\ (state.round.phase = "review" /\ SameRound) =>
              /\ state'.round.phase = "review"
              /\ state'.round.playedNotes = state.round.playedNotes
              /\ state'.round.targetMelody = state.round.targetMelody
              /\ state'.round.comparison = state.round.comparison
       /\ state'.round.phase = "review" =>
              \E rhythmMode \in BOOLEAN, tempo \in {100, 110} :
                  state'.round.comparison =
                      compareMelodiesPositional(
                          state'.round.targetMelody, state'.round.playedNotes,
                          [rhythmMode |-> rhythmMode, tempo |-> tempo])
      ]_vars

\* The second round in review, scored on two played notes, one off the
\* target's pitch.
C21_Witness ==
    /\ state.round.phase = "review"
    /\ state.round.roundNumber = 2
    /\ Len(state.round.playedNotes) = 2
    /\ Cardinality(WrongNotes(state.round)) = 1
    /\ state.round.comparison =
           compareMelodiesPositional(state.round.targetMelody,
                                     state.round.playedNotes,
                                     ScoringOptions(state))
    /\ state.round.comparison.pitchScore < 100

HasDuration(note) == "duration" \in DOMAIN note
AllWithDuration(mel) == \A k \in 1..Len(mel) : HasDuration(mel[k])
NoneWithDuration(mel) == \A k \in 1..Len(mel) : ~HasDuration(mel[k])

\* C26: the notes of the target melody all carry a duration or all lack one,
\* and when a round is scored the rhythm mode handed to the comparator is the
\* rhythm mode of the config the target melody was generated from: on exactly
\* when the notes of the melody carry durations.
C26_RhythmModeFixedWithinRound ==
    [][/\ \/ AllWithDuration(state'.round.targetMelody)
          \/ NoneWithDuration(state'.round.targetMelody)
       /\ PlayingFinishes =>
              (ScoringOptions(state).rhythmMode <=>
                   AllWithDuration(state.round.targetMelody))
      ]_vars

\* The part of C26 that holds: a melody is generated from one config, so its
\* notes all carry a duration or all lack one.
C26_MelodyOfOneMode ==
    \/ AllWithDuration(state.round.targetMelody)
    \/ NoneWithDuration(state.round.targetMelody)

\* A round in review that was scored for rhythm on a melody generated without
\* durations, and one scored for pitch only on a melody with durations.
C26_RhythmScoredOnPitchOnlyMelody ==
    /\ state.round.phase = "review"
    /\ state.round.targetMelody # <<>>
    /\ NoneWithDuration(state.round.targetMelody)
    /\ "rhythmScore" \in DOMAIN state.round.comparison

C26_PitchOnlyScoredOnRhythmMelody ==
    /\ state.round.phase = "review"
    /\ state.round.targetMelody # <<>>
    /\ AllWithDuration(state.round.targetMelody)
    /\ "rhythmScore" \notin DOMAIN state.round.comparison
    /\ Cardinality(WrongNotes(state.round)) = 0

\* The phase changes of the cycle
\* setup -> listening -> (counting-in ->) playing -> review -> listening.
PhaseCycle ==
    {<<"setup", "listening">>, <<"listening", "counting-in">>,
     <<"listening", "playing">>, <<"counting-in", "playing">>,
     <<"playing", "review">>, <<"review", "listening">>}

\* The phases in which an action type acts; in the others the reducer returns
\* the state it was given.
ActsIn(type) ==
    CASE type = "MIDI_CONNECTED" -> {"setup"}
      [] type = "REPLAY" -> {"listening"}
      [] type = "START_COUNTING_IN" -> {"listening"}
      [] type = "START_PLAYING" -> {"listening", "counting-in"}
      [] type = "ADD_NOTE" -> {"playing"}
      [] type = "FINISH_PLAYING" -> {"playing"}

GuardedTypes ==
    {"MIDI_CONNECTED", "REPLAY", "START_COUNTING_IN", "START_PLAYING",
     "ADD_NOTE", "FINISH_PLAYING"}

\* The six guarded action types leave the state s as it is outside their
\* phases, and change it inside them.
GuardsHold(s) ==
    \A type \in GuardedTypes :
        \A note \in HookNotes(s.round) :
            LET after == gameReducer(s, [type |-> type, note |-> note], 0)
            IN  (after = s) <=> (s.round.phase \notin ActsIn(type))

ComparisonOnlyInReview(s) ==
    (s.round.comparison # Null) <=> (s.round.phase = "review")

\* C30: through the callbacks of the hook the phase changes only along the
\* cycle setup -> listening -> (counting-in ->) playing -> review ->
\* listening; MIDI_CONNECTED acts only in setup, REPLAY and START_COUNTING_IN
\* only in listening, START_PLAYING only in listening or counting-in,
\* ADD_NOTE and FINISH_PLAYING only in playing, and in any other phase they
\* leave the state unchanged; the comparison is non-null exactly in review;
\* the round number never decreases.
C30_PhaseFollowsCycle ==
    [][/\ state'.round.phase # state.round.phase =>
              <<state.round.phase, state'.round.phase>> \in PhaseCycle
       /\ GuardsHold(state)
       /\ ComparisonOnlyInReview(state')
       /\ state'.round.roundNumber >= state.round.roundNumber
      ]_vars

\* The part of C30 that holds: the guards of the six action types, the
\* comparison being there exactly in review, the round number not decreasing.
C30_GuardsAndComparison ==
    [][/\ GuardsHold(state)
       /\ ComparisonOnlyInReview(state')
       /\ state'.round.roundNumber >= state.round.roundNumber
      ]_vars

\* nextRound() called outside review: a phase change off the cycle.
NextRoundOffCycle ==
    /\ state.round.phase \in {"counting-in", "playing"}
    /\ state'.round.phase = "listening"
    /\ state'.round.roundNumber = state.round.roundNumber + 1

\* No step is a nextRound() out of the count-in or the playing phase (it is
\* violated: such steps exist).
C30_NoNextRoundOffCycle == [][~NextRoundOffCycle]_vars

-----------------------------------------------------------------------------
(* The App with the statistics of a long session among those it can load *)

InitStats ==
    /\ ComparatorIdle
    /\ GeneratorIdle
    /\ LadderIdle
    /\ state = createInitialState
    /\ stats \in loadStats \cup {loadLongSessionStats}
    /\ prevStreakRef = stats.currentStreak
    /\ hasRecordedRef = FALSE
    /\ hasStartedRef = FALSE
    /\ userSettings = [key |-> DEFAULT_DIFFICULTY.key,
                       scale |-> DEFAULT_DIFFICULTY.scale,
                       octave |-> DEFAULT_DIFFICULTY.octave]
    /\ roundStartMelody = <<>>

SpecStats == InitStats /\ [][NextGame]_vars

-----------------------------------------------------------------------------
(* Claims about the statistics, checked under SpecStats *)

\* Scores recordRound can be handed: numbers, and the comparison object.
SampleScores == <<JsNumber(100), JsNumber(67), JsNumber(0), JsObject(Null)>>

\* What the claim asks of the statistics.
StatsInOrder(st) ==
    /\ st.bestStreak >= st.currentStreak
    /\ st.totalPerfects <= st.totalRounds
    /\ Len(st.roundHistory) <= MAX_HISTORY

\* One recording of a round: before and after.
RecordedOnce(before, after) ==
    /\ after.totalRounds = before.totalRounds + 1
    /\ after.currentStreak \in {before.currentStreak + 1, 0}
    /\ after.totalPerfects \in {before.totalPerfects, before.totalPerfects + 1}
    /\ Len(after.roundHistory) = Min(Len(before.roundHistory) + 1, MAX_HISTORY)

\* C29: a round that reaches review is recorded exactly once, whatever
\* re-runs of the record effect follow while the phase stays 'review':
\* totalRounds grows by exactly 1 per round and the streak goes up by one or
\* back to 0; bestStreak >= currentStreak, totalPerfects <= totalRounds and at
\* most 100 records in the round history hold all along.
C29_RoundRecordedOnce ==
    [][/\ RoundScored => RecordedOnce(stats, stats')
       /\ ~RoundScored => (stats' = stats \/ stats' = getDefaultStats)
       /\ StatsInOrder(stats')
       /\ \A k \in 1..Len(SampleScores) :
              \E after \in {recordRound(stats, SampleScores[k], state.difficulty,
                                        state.round.replaysUsed)} :
                  RecordedOnce(stats, after) /\ StatsInOrder(after)
      ]_vars

\* The third round after a stored session of 99 rounds is in review, its
\* difficulty changed after the recording: 102 rounds counted, 100 records
\* kept.
C29_Witness ==
    /\ state.round.phase = "review"
    /\ hasRecordedRef
    /\ state.round.roundNumber = 3
    /\ stats.totalRounds = LongSessionRounds + 3
    /\ Len(stats.roundHistory) = MAX_HISTORY
    /\ state.difficulty.key # DEFAULT_DIFFICULTY.key

-----------------------------------------------------------------------------
(* Claims about the weights of the final note, checked under SpecGenerate *)

\* The walk is about to pick the final note among candidates.
PickingFinalNote ==
    /\ genPc = "walk"
    /\ noteIndex = config.noteCount - 1
    /\ Len(CandidateIndices(scaleNotes, currentIndex, config.maxInterval)) > 0

\* The harmonic factor of the weight weightedPick gives candidate j for the
\* final note: the weight divided by its motion and recovery factors.
FinalHarmonicWeight(j) ==
    LET chordTonePCs == getChordTonePitchClasses(config.key, config.scale)
        rootPC == RootPC(scaleNotes, chordTonePCs)
    IN  CandidateWeight(j, scaleNotes, currentIndex, chordTonePCs, rootPC,
                        FifthPC(rootPC), lastLeapDir, TRUE)
        \div CandidateWeight(j, scaleNotes, currentIndex, {}, -1, -1,
                             lastLeapDir, FALSE)

TonicPC(key) == toSimplePitchClass(KeyNote(key))

\* C24: for the final note the harmonic weight of a candidate is 6 when its
\* pitch class is the tonic of the configured key, 3 when it is the fifth
\* (tonic + 7 mod 12) and 1 otherwise, in place of the chord-tone weight.
C24_ResolutionWeights ==
    PickingFinalNote =>
        \A n \in 1..Len(CandidateIndices(scaleNotes, currentIndex,
                                         config.maxInterval)) :
            LET j == CandidateIndices(scaleNotes, currentIndex,
                                      config.maxInterval)[n]
                pc == scaleNotes[j] % 12
            IN  FinalHarmonicWeight(j) =
                    IF pc = TonicPC(config.key) THEN 6
                    ELSE IF pc = (TonicPC(config.key) + 7) % 12 THEN 3
                    ELSE 1

\* C major, the final note about to be picked with both E and C among the
\* candidates: the root the code uses is E, the lowest chord tone of the
\* range; E weighs 4 * 6 = 24 and the tonic C weighs 1.
C24_TonicWeighsOne ==
    /\ PickingFinalNote
    /\ config.key = "C"
    /\ config.scale = "major"
    /\ RootPC(scaleNotes,
              getChordTonePitchClasses(config.key, config.scale)) = 4
    /\ \E n, k \in 1..Len(CandidateIndices(scaleNotes, currentIndex,
                                           config.maxInterval)) :
           LET cands == CandidateIndices(scaleNotes, currentIndex,
                                         config.maxInterval)
           IN  /\ scaleNotes[cands[n]] % 12 = 0
               /\ FinalHarmonicWeight(cands[n]) = 1
               /\ scaleNotes[cands[k]] % 12 = 4
               /\ FinalHarmonicWeight(cands[k]) = 24

\* A key whose tonic is the lowest chord tone of the range (F# in harmonic
\* minor): the root is the tonic, and it weighs 24, the fifth 12.
C24_TonicRootWeighsTwentyFour ==
    /\ PickingFinalNote
    /\ RootPC(scaleNotes,
              getChordTonePitchClasses(config.key, config.scale))
           = TonicPC(config.key)
    /\ \E n, k \in 1..Len(CandidateIndices(scaleNotes, currentIndex,
                                           config.maxInterval)) :
           LET cands == CandidateIndices(scaleNotes, currentIndex,
                                         config.maxInterval)
           IN  /\ scaleNotes[cands[n]] % 12 = TonicPC(config.key)
               /\ FinalHarmonicWeight(cands[n]) = 24
               /\ scaleNotes[cands[k]] % 12 = (TonicPC(config.key) + 7) % 12
               /\ FinalHarmonicWeight(cands[k]) = 12

-----------------------------------------------------------------------------
(* Claims about the ladder's table, checked under SpecLadder *)

ReadmeLevel(name, noteCount, maxInterval, rhythmMode, tempo) ==
    [name |-> name, noteCount |-> noteCount, maxInterval |-> maxInterval,
     rhythmMode |-> rhythmMode, tempo |-> tempo]

\* The table "Difficulty Levels" of the README.
ReadmeLevels ==
    <<ReadmeLevel("Beginner", 3, 3, FALSE, 100),
      ReadmeLevel("Easy", 3, 4, FALSE, 100),
      ReadmeLevel("Moderate", 4, 5, FALSE, 110),
      ReadmeLevel("Intermediate", 5, 7, TRUE, 120),
      ReadmeLevel("Challenging", 5, 8, TRUE, 120),
      ReadmeLevel("Advanced", 6, 10, TRUE, 140),
      ReadmeLevel("Expert", 7, 12, TRUE, 140),
      ReadmeLevel("Master", 8, 12, TRUE, 160)>>

FollowsReadme(level) ==
    LET row == ReadmeLevels[level.level]
    IN  /\ level.name = row.name
        /\ level.config.noteCount = row.noteCount
        /\ level.config.maxInterval = row.maxInterval
        /\ level.config.rhythmMode = row.rhythmMode
        /\ level.config.tempo = row.tempo

\* Level b is no easier than level a.
NoEasier(a, b) ==
    /\ a.config.noteCount <= b.config.noteCount
    /\ a.config.maxInterval <= b.config.maxInterval
    /\ a.config.tempo <= b.config.tempo
    /\ a.config.rhythmMode => b.config.rhythmMode

\* C23: there are eight levels, the level of every streak has the settings of
\* its row of the README table, and from one level to the next the note
\* count, the maximum interval and the tempo never decrease and rhythm mode
\* never goes off once on.
C23_LevelsFollowReadme ==
    ladderCall = "getLevelForStreak" =>
        /\ Len(DIFFICULTY_LEVELS) = Len(ReadmeLevels)
        /\ FollowsReadme(ladderResult)
        /\ \A s \in Streaks :
               s >= toStreak => NoEasier(ladderResult, getLevelForStreak(s))

\* The part of C23 that holds: eight levels with the names of the README,
\* none easier than the one before.
C23_LadderNeverEases ==
    ladderCall = "getLevelForStreak" =>
        /\ Len(DIFFICULTY_LEVELS) = Len(ReadmeLevels)
        /\ ladderResult.name = ReadmeLevels[ladderResult.level].name
        /\ \A s \in Streaks :
               s >= toStreak => NoEasier(ladderResult, getLevelForStreak(s))

\* The level of streak 3, Easy: 4 notes and 5 semitones, where the README
\* has 3 notes and 4 semitones.
C23_EasyDiffersFromReadme ==
    /\ ladderCall = "getLevelForStreak"
    /\ toStreak = 3
    /\ ladderResult.name = "Easy"
    /\ ladderResult.config.noteCount = 4
    /\ ladderResult.config.maxInterval = 5
    /\ ReadmeLevels[2].noteCount = 3
    /\ ReadmeLevels[2].maxInterval = 4

\* The levels whose settings are those of their README row.
LevelsAsInReadme == {l.level : l \in {x \in LevelSet : FollowsReadme(x)}}
C23_ThreeLevelsFollowReadme ==
    ladderCall = "getLevelForStreak" => LevelsAsInReadme = {1, 7, 8}

=============================================================================
